---- MODULE Spec2Model ----
(***************************************************************************)
(* Verification model of the DbRheo agent turn engine.                     *)
(*                                                                         *)
(* Twelve state machines share this module, each with its own              *)
(* specification:                                                          *)
(*   SpecConv   the provider message converters (OpenAI, Anthropic,        *)
(*              Gemini), applied to histories built content by content;    *)
(*   SpecAbort  one provider stream read by the CLI event loop while the   *)
(*              abort signal may be raised from the listener thread;       *)
(*   SpecSched  the tool scheduler, the Turn loop of the Client and the    *)
(*              Chat history;                                              *)
(*   SpecStream one provider service object: the calls made on it, the     *)
(*              wire events it reads and the chunks it yields;             *)
(*   SpecPoll   the wait of the CLI between a confirmation and the bridge  *)
(*              prompt (SpecPollFair adds the fairness of the event        *)
(*              loop);                                                     *)
(*   SpecRisk   the SQL risk evaluator applied to statements built token   *)
(*              by token under every context;                              *)
(*   SpecTokens the TokenStatistics of a session, one add_usage at a time; *)
(*   SpecTool   the calls of one batch on schema_discovery,                *)
(*              database_connect and database_export, taken through the    *)
(*              scheduler's statuses;                                      *)
(*   SpecPrep   GeminiService._prepare_contents on any list of dict        *)
(*              contents, and on its own result;                           *)
(*   SpecChat   the Chat history, its curated view and its compression;    *)
(*   SpecExport the batch loop of an export over one query (SpecExportFair *)
(*              adds that the loop does not wait);                         *)
(*   SpecAdapter the tool executions that connect a database adapter of    *)
(*              their own, call by call.                                   *)
(* The variables of the machines a specification does not drive keep their *)
(* initial values under it.                                                *)
(***************************************************************************)
EXTENDS Integers, Sequences, FiniteSets, TLC

VARIABLES
    hist,       \* SpecConv: the internal (Gemini-form) history, a sequence of contents
    sysInstr,   \* SpecConv: whether a system instruction is passed to the converter
    omsgs,      \* SpecConv: result of _gemini_to_openai_messages, or <<>> before it ran
    cmsgs,      \* SpecConv: result of _gemini_to_claude_messages, or <<>> before it ran
    convDone,   \* SpecConv: which converters have run on the current history
    wire,       \* SpecAbort: the chunks the provider's wire stream has still to deliver
    spc,        \* SpecAbort: where the one thread of control (provider, Turn, CLI) stands
    cur,        \* SpecAbort: the chunk or event in hand
    closed,     \* SpecAbort: whether the event in hand is the last of the stream
    signalAborted, \* SpecAbort: SimpleAbortSignal.aborted of the session signal
    pseen,      \* SpecAbort: what the provider's last test of signal.aborted read
    cseen,      \* SpecAbort: what the CLI loop's last test of signal.aborted read
    yielded,    \* SpecAbort: the chunks send_message_stream has yielded
    shown,      \* SpecAbort: the events the CLI loop has processed
    tool_calls, \* SpecSched: the scheduler's ToolCall records, call_id = index
    trusted,    \* SpecSched: the tools given proceed_always in this session
    completions,\* SpecSched: the request_ids on_all_tool_calls_complete fired for
    doneOrder,  \* SpecSched: the call_ids in the order they reached a terminal status
    chat,       \* SpecSched: the Chat history
    responded,  \* SpecSched: the request_ids whose responses are in Chat
    cpc,        \* SpecSched: where the Client's Turn loop stands
    aborted,    \* SpecSched: the session AbortSignal
    abortedReqs,\* SpecSched: the request_ids whose executions saw the signal aborted
    turnSession,\* SpecSched: for each Turn started, the user message it serves
    session,    \* SpecSched: number of user messages so far
    gmsgs,      \* SpecConv: result of GeminiService._prepare_contents, or <<>> before it ran
    sprov,      \* SpecStream: the provider service ("openai", "claude", "gemini")
    smode,      \* SpecStream: the call in hand, send_message_stream or generate_json
    sphase,     \* SpecStream: "start" (api_call under retry), "open" (reading), "closed"
    attempts,   \* SpecStream: the attempts of api_call made for the call in hand
    recv,       \* SpecStream: the wire events read from the stream in hand
    out,        \* SpecStream: the chunks the call in hand has yielded
    cfc,        \* SpecStream: current_function_call / self._current_tool_use
    nstreams,   \* SpecStream: the calls made on this service object so far
    sended,     \* SpecStream: how the call in hand ended
    serr,       \* SpecStream: the kind of the error that ended it, and where it fell
    current_model, \* SpecPoll: the model named by the environment
    ppc,        \* SpecPoll: where _continue_after_confirmation stands
    waited,     \* SpecPoll: the number of poll_interval steps added to `waited`
    polls,      \* SpecPoll: the number of times the scheduler's calls were examined
    active,     \* SpecPoll: the number of calls the poll counts as active
    sql,        \* SpecRisk: the SQL text handed to evaluate_sql_risk, as its tokens
    assessment, \* SpecRisk: the RiskAssessment returned (with the context it was given)
    records,    \* SpecTokens: TokenStatistics.records
    tcalls,     \* SpecTool: the calls of one batch, each with its tool, params and status
    raw,        \* SpecPrep: the contents handed to _prepare_contents
    prepared,    \* SpecPrep: what _prepare_contents returned, for raw and then for its own result
    clog,  \* SpecChat: the history of the Chat, comprehensive
    cviews,  \* SpecChat: the curated view read last, and the curation of that view
    csnaps,  \* SpecChat: the curated history after each compression since the last add
    cfresh,  \* SpecChat: whether the summary was written since the last add
    xq,  \* SpecExport: the query being exported and the batch size
    xoffset,  \* SpecExport: the local offset of the export loop
    xwritten,  \* SpecExport: how often each row of the result was written (2 is twice or more)
    xpc,  \* SpecExport: where the export stands
    xpasses,    \* SpecExport: the passes of the loop made so far, modulo 2
    aexec,  \* SpecAdapter: the tool execution in hand and what its adapter offers
    apc,  \* SpecAdapter: where the execution stands
    acalls,  \* SpecAdapter: the methods it has called on its adapter
    aresult,  \* SpecAdapter: the ToolResult it returned, success or error
    aopen,  \* SpecAdapter: the adapters connected and not disconnected
    nexecs  \* SpecAdapter: the executions started

convVars == <<hist, sysInstr, omsgs, cmsgs, gmsgs, convDone>>
abortVars == <<wire, spc, cur, closed, signalAborted, pseen, cseen, yielded, shown>>

schedVars == <<tool_calls, trusted, completions, doneOrder, chat, responded, cpc,
               aborted, abortedReqs, turnSession, session>>

\* what the actions of one machine leave alone: the variables of the others
streamVars == <<sprov, smode, sphase, attempts, recv, out, cfc, nstreams, sended, serr>>
pollVars == <<current_model, ppc, waited, polls, active>>
riskVars == <<sql, assessment>>
tokVars == <<records>>
toolVars == <<tcalls>>
prepVars == <<raw, prepared>>
chatVars == <<clog, cviews, csnaps, cfresh>>
exportVars == <<xq, xoffset, xwritten, xpc, xpasses>>
adapterVars == <<aexec, apc, acalls, aresult, aopen, nexecs>>

offConv == <<abortVars, schedVars, streamVars, pollVars, riskVars, tokVars, toolVars, prepVars, chatVars, exportVars, adapterVars>>
offAbort == <<convVars, schedVars, streamVars, pollVars, riskVars, tokVars, toolVars, prepVars, chatVars, exportVars, adapterVars>>
offSched == <<convVars, abortVars, streamVars, pollVars, riskVars, tokVars, toolVars, prepVars, chatVars, exportVars, adapterVars>>
offStream == <<convVars, abortVars, schedVars, pollVars, riskVars, tokVars, toolVars, prepVars, chatVars, exportVars, adapterVars>>
offPoll == <<convVars, abortVars, schedVars, streamVars, riskVars, tokVars, toolVars, prepVars, chatVars, exportVars, adapterVars>>
offRisk == <<convVars, abortVars, schedVars, streamVars, pollVars, tokVars, toolVars, prepVars, chatVars, exportVars, adapterVars>>
offTok == <<convVars, abortVars, schedVars, streamVars, pollVars, riskVars, toolVars, prepVars, chatVars, exportVars, adapterVars>>
offTool == <<convVars, abortVars, schedVars, streamVars, pollVars, riskVars, tokVars, prepVars, chatVars, exportVars, adapterVars>>
offPrep == <<convVars, abortVars, schedVars, streamVars, pollVars, riskVars, tokVars, toolVars, chatVars, exportVars, adapterVars>>
offChat == <<convVars, abortVars, schedVars, streamVars, pollVars, riskVars, tokVars, toolVars, prepVars, exportVars, adapterVars>>
offExport == <<convVars, abortVars, schedVars, streamVars, pollVars, riskVars, tokVars, toolVars, prepVars, chatVars, adapterVars>>
offAdapter == <<convVars, abortVars, schedVars, streamVars, pollVars, riskVars, tokVars, toolVars, prepVars, chatVars, exportVars>>

(***************************************************************************)
(* Bounds of the model.                                                    *)
(***************************************************************************)
\* longest history the converters are applied to
MaxHist == 4
\* most function calls one model content carries
MaxCallsPerContent == 2
\* most chunks the wire stream of one response delivers
MaxChunks == 3
\* max_session_turns, the cap on the Turns of one session (default 25), scaled
MaxTurns == 2
\* most tool calls the model requests in one Turn
MaxBatch == 2
MaxSessions == 2
\* most tool calls the wire stream of one response carries
MaxWireCalls == 2
\* the argument fragments a tool call is streamed in
FragsPerCall == 2
\* most wire events read from one stream
MaxEvents == 7
\* most calls made on one provider service object
MaxStreams == 2
\* most tokens of a SQL text
MaxTokens == 4
\* most add_usage calls, and the largest token count of a usage
MaxRecords == 3
MaxCount == 1
\* most contents handed to _prepare_contents, and most parts of one of them
MaxRaw == 2
MaxRawParts == 2
\* longest history of the Chat, and most calls of one session
MaxLog == 4
MaxChatCalls == 3
\* the compression threshold, in estimated tokens (scaled), and K, the number
\* of most recent contents compression keeps (default 6, scaled)
CompressionThreshold == 3
KeepRecent == 2
\* most rows a query returns, and the largest batch_size of an export
MaxRows == 5
MaxBatchSize == 3
\* most tool executions that connect an adapter of their own
MaxExecs == 2

(***************************************************************************)
(* Constants of the program.                                               *)
(***************************************************************************)
\* RetryOptions(max_attempts=3) of the three send_message_stream
StreamMaxAttempts == 3
\* RetryOptions(max_attempts=5) of GeminiService.generate_json
GeminiJsonMaxAttempts == 5
\* max_wait = 5.0 and poll_interval = 0.1, in tenths of a second
MaxWaitTenths == 50
PollIntervalTenths == 1
\* _get_model_wait_time: 1.5 for claude/gpt/openai, 0.5 for gemini and by default
ClaudeGptWaitTenths == 15
DefaultWaitTenths == 5

(***************************************************************************)
(* Sequence helpers.                                                       *)
(***************************************************************************)
RECURSIVE FlattenSeq(_)
FlattenSeq(ss) == IF ss = <<>> THEN <<>> ELSE Head(ss) \o FlattenSeq(Tail(ss))

SeqRange(s) == {s[i] : i \in 1..Len(s)}

(***************************************************************************)
(* Internal history.  A content is [role, parts]; a part is a text, a      *)
(* function_call or a function_response.  A text part carries the string   *)
(* it holds; the two bridge prompts are the strings the converters look    *)
(* for.                                                                    *)
(***************************************************************************)
PleaseContinue == "Please continue."
ContinueConversation == "Continue the conversation."
PlaceholderText == "Tool execution pending or awaiting confirmation"

TextPart(s) == [kind |-> "text", text |-> s, id |-> 0]
CallPart(i) == [kind |-> "function_call", text |-> "", id |-> i]
RespPart(i) == [kind |-> "function_response", text |-> "", id |-> i]

Content(r, ps) == [role |-> r, parts |-> ps]

TextsOf(parts) ==
    LET t == SelectSeq(parts, LAMBDA p : p.kind = "text")
    IN  [i \in 1..Len(t) |-> t[i].text]

CallIdsOf(parts) ==
    LET t == SelectSeq(parts, LAMBDA p : p.kind = "function_call")
    IN  [i \in 1..Len(t) |-> t[i].id]

RespIdsOf(parts) ==
    LET t == SelectSeq(parts, LAMBDA p : p.kind = "function_response")
    IN  [i \in 1..Len(t) |-> t[i].id]

\* role = "assistant" if content.get("role") == "model" else content.get("role", "user")
ProviderRole(r) == IF r = "model" THEN "assistant" ELSE r

(***************************************************************************)
(* OpenAI converter: OpenAIService._gemini_to_openai_messages.             *)
(* A message is [role, content, tool_calls, tool_call_id, placeholder]:    *)
(* content is the sequence of text parts that "\n".join glues together     *)
(* (one bridge prompt alone is the only content that strips to a bridge    *)
(* prompt), tool_calls the ids of the calls ("tool_calls" in msg is        *)
(* tool_calls # <<>>), tool_call_id 0 on a message that is no tool         *)
(* message.                                                                *)
(***************************************************************************)
OMsg(r, c, tcs) ==
    [role |-> r, content |-> c, tool_calls |-> tcs, tool_call_id |-> 0,
     placeholder |-> FALSE]

OToolMsg(i) ==
    [role |-> "tool", content |-> <<"response">>, tool_calls |-> <<>>,
     tool_call_id |-> i, placeholder |-> FALSE]

OPlaceholder(i) ==
    [role |-> "tool", content |-> <<PlaceholderText>>, tool_calls |-> <<>>,
     tool_call_id |-> i, placeholder |-> TRUE]

OSystemMsg == OMsg("system", <<"system">>, <<>>)

HasToolCalls(m) == m.role = "assistant" /\ m.tool_calls # <<>>

\* lines 252-297: the message of one content (none when it has no text and no call)
OContentMessages(c) ==
    LET role  == ProviderRole(c.role)
        texts == TextsOf(c.parts)
        tcs   == CallIdsOf(c.parts)
    IN  IF texts # <<>> \/ tcs # <<>>
        THEN <<OMsg(role, texts, IF tcs # <<>> /\ role = "assistant" THEN tcs ELSE <<>>)>>
        ELSE <<>>

\* lines 276-283: the tool responses of one content, collected for later
OContentResponses(c) ==
    LET ids == RespIdsOf(c.parts) IN [i \in 1..Len(ids) |-> OToolMsg(ids[i])]

\* lines 240-301: system message, the contents' messages, then every tool response
OCollect(contents, sys) ==
    (IF sys THEN <<OSystemMsg>> ELSE <<>>)
    \o FlattenSeq([i \in 1..Len(contents) |-> OContentMessages(contents[i])])
    \o FlattenSeq([i \in 1..Len(contents) |-> OContentResponses(contents[i])])

\* lines 326-330: tool_responses_map, the last response of an id wins
OResponsesMap(messages, startIdx) ==
    LET idx(i) == {k \in startIdx..Len(messages) :
                      messages[k].role = "tool" /\ messages[k].tool_call_id = i}
        ids == {messages[k].tool_call_id : k \in
                  {j \in startIdx..Len(messages) : messages[j].role = "tool"}}
    IN  [i \in ids |-> messages[CHOOSE k \in idx(i) : \A j \in idx(i) : j <= k]]

\* lines 344-348: the responses appended right after an assistant message
RECURSIVE OAttach(_, _, _, _)
OAttach(tcs, map, used, acc) ==
    IF tcs = <<>> THEN [msgs |-> acc, used |-> used]
    ELSE LET i == Head(tcs) IN
         IF i \in DOMAIN map /\ i \notin used
         THEN OAttach(Tail(tcs), map, used \cup {i}, Append(acc, map[i]))
         ELSE OAttach(Tail(tcs), map, used, acc)

IsBridgeText(c) == c = <<PleaseContinue>> \/ c = <<ContinueConversation>>

\* a pairing loop that drops every user message after an unpaired call
OSkipsAnyUserText(msg, i, startIdx, fixed, used) ==
    /\ msg.role = "user"
    /\ i > startIdx
    /\ Len(fixed) > 0
    /\ HasToolCalls(fixed[Len(fixed)])
    /\ ~ (\A k \in 1..Len(fixed[Len(fixed)].tool_calls) :
             fixed[Len(fixed)].tool_calls[k] \in used)

\* lines 362-377: a bridge prompt right after an assistant message with an unpaired call
OSkipsBridge(msg, i, startIdx, fixed, used) ==
    /\ msg.role = "user"
    /\ IsBridgeText(msg.content)
    /\ i > startIdx
    /\ Len(fixed) > 0
    /\ HasToolCalls(fixed[Len(fixed)])
    /\ ~ (\A k \in 1..Len(fixed[Len(fixed)].tool_calls) :
             fixed[Len(fixed)].tool_calls[k] \in used)

\* lines 335-381: the pairing loop
RECURSIVE OFixLoop(_, _, _, _, _, _)
OFixLoop(messages, i, startIdx, map, fixed, used) ==
    IF i > Len(messages) THEN fixed
    ELSE LET msg == messages[i] IN
         IF HasToolCalls(msg)
         THEN LET a == OAttach(msg.tool_calls, map, used, <<>>)
              IN  OFixLoop(messages, i + 1, startIdx, map,
                           Append(fixed, msg) \o a.msgs, a.used)
         ELSE IF msg.role = "tool"
         THEN IF msg.tool_call_id \in used
              THEN OFixLoop(messages, i + 1, startIdx, map, fixed, used)
              ELSE OFixLoop(messages, i + 1, startIdx, map, Append(fixed, msg), used)
         ELSE IF OSkipsBridge(msg, i, startIdx, fixed, used)
              THEN OFixLoop(messages, i + 1, startIdx, map, fixed, used)
              ELSE OFixLoop(messages, i + 1, startIdx, map, Append(fixed, msg), used)

\* lines 394-399: has_response looks at the one message after the assistant message
OHasResponse(fixed, i, toolId) ==
    /\ i + 1 <= Len(fixed)
    /\ fixed[i + 1].role = "tool"
    /\ fixed[i + 1].tool_call_id = toolId

\* lines 385-411: placeholders for the calls found unanswered
OPlaceholders(fixed, i) ==
    LET tcs  == fixed[i].tool_calls
        miss == SelectSeq(tcs, LAMBDA t : ~ OHasResponse(fixed, i, t))
    IN  [k \in 1..Len(miss) |-> OPlaceholder(miss[k])]

OFinal(fixed) ==
    FlattenSeq([i \in 1..Len(fixed) |->
        <<fixed[i]>> \o (IF HasToolCalls(fixed[i]) THEN OPlaceholders(fixed, i) ELSE <<>>)])

\* lines 230-426
GeminiToOpenAIMessages(contents, sys) ==
    LET messages == OCollect(contents, sys)
        startIdx == IF sys THEN 2 ELSE 1
        map      == OResponsesMap(messages, startIdx)
        fixed    == OFixLoop(messages, startIdx, startIdx, map,
                             IF sys THEN <<messages[1]>> ELSE <<>>, {})
    IN  OFinal(fixed)

(***************************************************************************)
(* Anthropic converter: ClaudeService._gemini_to_claude_messages.          *)
(* A message is [role, text, tool_use, tool_result]: text the text parts   *)
(* joined (or the inserted prompt), tool_use the ids of its tool_use       *)
(* blocks, tool_result the tool_use_id of its one tool_result block (0     *)
(* when it has none).                                                      *)
(***************************************************************************)
CMsg(r, t, tu, tr) == [role |-> r, text |-> t, tool_use |-> tu, tool_result |-> tr]

\* lines 243-303: the messages of one content
CContentMessages(c) ==
    LET role  == ProviderRole(c.role)
        texts == TextsOf(c.parts)
        tus   == CallIdsOf(c.parts)
        trs   == RespIdsOf(c.parts)
    IN  IF role = "assistant" /\ (texts # <<>> \/ tus # <<>>)
        THEN <<CMsg("assistant", texts, tus, 0)>>
        ELSE IF role = "user" /\ trs # <<>>
        THEN [i \in 1..Len(trs) |-> CMsg("user", <<>>, <<>>, trs[i])]
        ELSE IF texts # <<>>
        THEN <<CMsg(role, texts, <<>>, 0)>>
        ELSE <<>>

\* lines 305-308: a first message that is not a user message gets a prompt before it
CEnsureFirstUser(messages) ==
    IF messages # <<>> /\ messages[1].role # "user"
    THEN <<CMsg("user", <<ContinueConversation>>, <<>>, 0)>> \o messages
    ELSE messages

\* lines 310-312: a last message that is not a user message gets the bridge prompt
CEnsureLastUser(messages) ==
    IF messages # <<>> /\ messages[Len(messages)].role # "user"
    THEN Append(messages, CMsg("user", <<PleaseContinue>>, <<>>, 0))
    ELSE messages

\* lines 235-314
GeminiToClaudeMessages(contents) ==
    CEnsureLastUser(CEnsureFirstUser(
        FlattenSeq([i \in 1..Len(contents) |-> CContentMessages(contents[i])])))

(***************************************************************************)
(* Gemini converter: GeminiService._prepare_contents.  The role is kept;   *)
(* a part is kept when its payload is truthy (a text that is not the empty *)
(* string, a function_call or function_response that is not the empty      *)
(* dict), under the snake_case name of its key; a content left without     *)
(* parts is not sent.  A part whose key is functionCall or                 *)
(* functionResponse has that kind; id 0 is the empty dict.                 *)
(***************************************************************************)
\* a _prepare_contents that keeps empty parts
KeepsEveryPart(p) == TRUE

\* lines 259-271: if part.get("text") ... elif part.get("function_call") ...
GKeepsPart(p) == IF p.kind = "text" THEN p.text # "" ELSE p.id # 0

\* lines 263-271: the key a kept part is appended under
SnakeCase(kind) ==
    CASE kind = "functionCall" -> "function_call"
      [] kind = "functionResponse" -> "function_response"
      [] OTHER -> kind

GPreparedPart(p) == [kind |-> SnakeCase(p.kind), text |-> p.text, id |-> p.id]

\* lines 254-271: the prepared content of one content
GPreparedContent(c) ==
    LET kept == SelectSeq(c.parts, GKeepsPart)
    IN  Content(c.role, [k \in 1..Len(kept) |-> GPreparedPart(kept[k])])

\* lines 224-278
GeminiPrepareContents(contents) ==
    SelectSeq([i \in 1..Len(contents) |-> GPreparedContent(contents[i])],
              LAMBDA c : c.parts # <<>>)

(***************************************************************************)
(* SpecConv: histories as the Client builds them, and the converters       *)
(* applied to them.  A history opens with a user text.  A model content    *)
(* carries a text, or up to MaxCallsPerContent function calls with fresh   *)
(* ids (optionally after a text); a user content is a text, the bridge     *)
(* prompt the CLI sends after a confirmation, or the function responses of *)
(* one earlier model content that has none yet, in call order.             *)
(***************************************************************************)
HistCallIds(h) == UNION {SeqRange(CallIdsOf(h[i].parts)) : i \in 1..Len(h)}
HistRespIds(h) == UNION {SeqRange(RespIdsOf(h[i].parts)) : i \in 1..Len(h)}

NextCallId(h) == Cardinality(HistCallIds(h)) + 1

FreshCalls(h, n) == [k \in 1..n |-> CallPart(NextCallId(h) + k - 1)]

ModelContents(h) ==
    {Content("model", <<TextPart("text")>>)}
    \cup {Content("model", FreshCalls(h, n)) : n \in 1..MaxCallsPerContent}
    \cup {Content("model", <<TextPart("text")>> \o FreshCalls(h, n)) :
             n \in 1..MaxCallsPerContent}

\* the model contents of h whose calls have no response in h
Unanswered(h) ==
    {i \in 1..Len(h) : /\ h[i].role = "model"
                       /\ CallIdsOf(h[i].parts) # <<>>
                       /\ SeqRange(CallIdsOf(h[i].parts)) \cap HistRespIds(h) = {}}

ResponsesTo(c) ==
    LET ids == CallIdsOf(c.parts) IN [k \in 1..Len(ids) |-> RespPart(ids[k])]

UserContents(h) ==
    {Content("user", <<TextPart("text")>>), Content("user", <<TextPart(PleaseContinue)>>)}
    \cup {Content("user", ResponsesTo(h[i])) : i \in Unanswered(h)}

\* Chat.add: one more content; the results of earlier conversions are dropped
AddContent ==
    /\ Len(hist) < MaxHist
    /\ \E c \in (IF hist = <<>> THEN {Content("user", <<TextPart("text")>>)}
                 ELSE ModelContents(hist) \cup UserContents(hist)) :
           hist' = Append(hist, c)
    /\ omsgs' = <<>>
    /\ cmsgs' = <<>>
    /\ gmsgs' = <<>>
    /\ convDone' = {}
    /\ UNCHANGED <<sysInstr, offConv>>

ConvertOpenAI ==
    /\ "openai" \notin convDone
    /\ omsgs' = GeminiToOpenAIMessages(hist, sysInstr)
    /\ convDone' = convDone \cup {"openai"}
    /\ UNCHANGED <<hist, sysInstr, cmsgs, gmsgs, offConv>>

ConvertClaude ==
    /\ "claude" \notin convDone
    /\ cmsgs' = GeminiToClaudeMessages(hist)
    /\ convDone' = convDone \cup {"claude"}
    /\ UNCHANGED <<hist, sysInstr, omsgs, gmsgs, offConv>>

ConvertGemini ==
    /\ "gemini" \notin convDone
    /\ gmsgs' = GeminiPrepareContents(hist)
    /\ convDone' = convDone \cup {"gemini"}
    /\ UNCHANGED <<hist, sysInstr, omsgs, cmsgs, offConv>>

ConvNext == AddContent \/ ConvertOpenAI \/ ConvertClaude \/ ConvertGemini


(***************************************************************************)
(* SpecAbort: one response stream.  OpenAIService.send_message_stream      *)
(* reads the wire stream chunk by chunk; the Turn and the Client hand each *)
(* chunk it yields upward as an event; the loop of                         *)
(* DbRheoCLI._handle_message processes the events.  These run as one       *)
(* thread of control; abort() is called from the keyboard listener thread  *)
(* (or a signal handler) and so may fall between any two of their steps.   *)
(* A wire chunk is a text delta, the chunk that completes a tool call, a   *)
(* chunk with nothing to yield, or a read that raises.                     *)
(***************************************************************************)
WireKinds == {"text", "function_calls", "empty", "raise"}

WireStreams == UNION {[1..n -> WireKinds] : n \in 0..MaxChunks}

\* SimpleAbortSignal.abort(), from the listener thread while a response runs
Abort ==
    /\ spc # "done"
    /\ ~ signalAborted
    /\ signalAborted' = TRUE
    /\ UNCHANGED <<wire, spc, cur, closed, pseen, cseen, yielded, shown, offAbort>>

\* `for chunk in stream`: the next chunk, the end of the stream, or an exception,
\* which the except clause turns into one error chunk
ProviderFetch ==
    /\ spc = "fetch"
    /\ \/ /\ wire = <<>>
          /\ cur' = "end"
          /\ spc' = "relay"
          /\ UNCHANGED <<wire, yielded>>
       \/ /\ wire # <<>>
          /\ Head(wire) = "raise"
          /\ wire' = <<>>
          /\ cur' = "error"
          /\ yielded' = Append(yielded, [kind |-> "error", late |-> signalAborted, seen |-> FALSE])
          /\ spc' = "relay"
       \/ /\ wire # <<>>
          /\ Head(wire) # "raise"
          /\ wire' = Tail(wire)
          /\ cur' = Head(wire)
          /\ spc' = "pcheck"
          /\ UNCHANGED yielded
    /\ UNCHANGED <<closed, signalAborted, pseen, cseen, shown, offAbort>>

\* a provider loop that never looks at the signal
ProviderIgnoresAbort == FALSE

\* `if signal and signal.aborted: break`
ProviderSeesAbort == signalAborted

ProviderCheck ==
    /\ spc = "pcheck"
    /\ pseen' = signalAborted
    /\ IF ProviderSeesAbort
       THEN /\ wire' = <<>>
            /\ cur' = "end"
            /\ spc' = "relay"
       ELSE /\ spc' = "pyield"
            /\ UNCHANGED <<wire, cur>>
    /\ UNCHANGED <<closed, signalAborted, cseen, yielded, shown, offAbort>>

\* `processed = self._process_openai_chunk(...)`, `if processed: yield processed`
ProviderYield ==
    /\ spc = "pyield"
    /\ IF cur = "empty"
       THEN /\ spc' = "fetch"
            /\ UNCHANGED yielded
       ELSE /\ yielded' = Append(yielded, [kind |-> cur, late |-> signalAborted, seen |-> pseen])
            /\ spc' = "relay"
    /\ UNCHANGED <<wire, cur, closed, signalAborted, pseen, cseen, shown, offAbort>>

EventOf(chunk) ==
    CASE chunk = "text" -> "Content"
      [] chunk = "function_calls" -> "ToolCallRequest"
      [] chunk = "error" -> "Error"
      [] OTHER -> "UserCancelled"

\* Turn and Client: a chunk becomes an event and an error chunk ends the Turn.
\* An abort the Turn notices ends it with UserCancelled; it notices one for sure
\* when the provider's stream has ended, and otherwise it may hand the chunk on
\* (its own check may have passed before the abort).
TurnRelay ==
    /\ spc = "relay"
    /\ \/ /\ signalAborted
          /\ cur' = "UserCancelled"
          /\ closed' = TRUE
          /\ spc' = "ccheck"
       \/ /\ ~ signalAborted
          /\ cur = "end"
          /\ spc' = "done"
          /\ UNCHANGED <<cur, closed>>
       \/ /\ cur # "end"
          /\ cur' = EventOf(cur)
          /\ closed' = (cur = "error")
          /\ spc' = "ccheck"
    /\ UNCHANGED <<wire, signalAborted, pseen, cseen, yielded, shown, offAbort>>

\* `if not self.running or self.signal.aborted: break`
CliSeesAbort == signalAborted

CliCheck ==
    /\ spc = "ccheck"
    /\ cseen' = signalAborted
    /\ spc' = IF CliSeesAbort THEN "done" ELSE "cprocess"
    /\ UNCHANGED <<wire, cur, closed, signalAborted, pseen, yielded, shown, offAbort>>

\* `await self.event_handler.process(event)`, then the break on AwaitingConfirmation
CliProcess ==
    /\ spc = "cprocess"
    /\ shown' = Append(shown, [kind |-> cur, late |-> signalAborted, seen |-> cseen])
    /\ spc' = IF cur = "AwaitingConfirmation" \/ closed THEN "done"
              ELSE IF cur = "ToolCallRequest" THEN "sched"
              ELSE "fetch"
    /\ UNCHANGED <<wire, cur, closed, signalAborted, pseen, cseen, yielded, offAbort>>

\* the scheduler, for the call just requested: it asks for confirmation or not
SchedulerEmit ==
    /\ spc = "sched"
    /\ \/ /\ ~ signalAborted
          /\ cur' = "AwaitingConfirmation"
          /\ spc' = "ccheck"
       \/ /\ spc' = "fetch"
          /\ UNCHANGED cur
    /\ UNCHANGED <<wire, closed, signalAborted, pseen, cseen, yielded, shown, offAbort>>

AbortNext ==
    \/ Abort
    \/ ProviderFetch
    \/ ProviderCheck
    \/ ProviderYield
    \/ TurnRelay
    \/ CliCheck
    \/ CliProcess
    \/ SchedulerEmit

(***************************************************************************)
(* SpecSched: the Tool Scheduler (spec 4.4), the Turn (4.6), the Client's  *)
(* Turn loop (4.8) and the Chat (4.5).  A ToolCall record is               *)
(* [request_id, kind, status, confirm, outcome, executed]: kind says what  *)
(* the tool's validate and should_confirm answer for its params, confirm   *)
(* what should_confirm answered ("none" before it ran, "trusted" when an   *)
(* earlier proceed_always covered the call), outcome what                  *)
(* handle_confirmation was called with, executed whether execute was       *)
(* invoked.  The request_id of a batch is the number of the Turn that      *)
(* registered it.                                                          *)
(***************************************************************************)
Terminal == {"success", "error", "cancelled"}
Proceed == {"proceed_once", "proceed_always", "modify"}
Outcomes == Proceed \cup {"cancel"}

\* "plain": valid params, no confirmation; "invalid": validate returns an error;
\* "overwrite": export_data onto an existing file without append
CallKinds == {"plain", "invalid", "overwrite"}

\* DatabaseExportTool.validate_tool_params: an error message or None
ValidateToolParams(kind) == IF kind = "invalid" THEN "error" ELSE "none"

\* a tool that never asks for confirmation
NeverConfirms(kind) == FALSE

\* DatabaseExportTool.should_confirm_execute: details iff the file exists and the
\* export does not append
ShouldConfirmExecute(kind) == kind = "overwrite"

NewCall(r, kind) ==
    [request_id |-> r, kind |-> kind, status |-> "validating", confirm |-> "none",
     outcome |-> "none", executed |-> FALSE]

CallsOf(r) == {c \in 1..Len(tool_calls) : tool_calls[c].request_id = r}

AllTerminal(calls, r) ==
    \A c \in 1..Len(calls) : calls[c].request_id = r => calls[c].status \in Terminal

\* a scheduler that reports the batch complete whenever one of its calls ends
FiresOnEveryEnd(calls, r) == TRUE

\* the scheduler's completion test, run after a call reached a terminal status
BatchComplete(calls, r) == AllTerminal(calls, r)

\* call c has reached a terminal status (calls holds the new records):
\* on_tool_calls_update, and on_all_tool_calls_complete when the batch is complete
Finish(calls, c) ==
    /\ tool_calls' = calls
    /\ doneOrder' = Append(doneOrder, c)
    /\ completions' = IF BatchComplete(calls, calls[c].request_id)
                      THEN Append(completions, calls[c].request_id)
                      ELSE completions

\* where a valid call goes: parked when should_confirm returned details
GateStatus(details) == IF details THEN "awaiting_approval" ELSE "scheduled"

\* batch N+1 does not begin until batch N is all-terminal
EarlierBatchesDone(c) ==
    \A d \in 1..Len(tool_calls) :
        tool_calls[d].request_id < tool_calls[c].request_id
            => tool_calls[d].status \in Terminal

\* validating: validate, then should_confirm unless the tool is trusted
Validate(c) ==
    /\ tool_calls[c].status = "validating"
    /\ EarlierBatchesDone(c)
    /\ IF ValidateToolParams(tool_calls[c].kind) # "none"
       THEN Finish([tool_calls EXCEPT ![c].status = "error"], c)
       ELSE LET covered == tool_calls[c].kind \in trusted
                details == ~ covered /\ ShouldConfirmExecute(tool_calls[c].kind)
            IN  /\ tool_calls' = [tool_calls EXCEPT
                       ![c].status = GateStatus(details),
                       ![c].confirm = IF covered THEN "trusted"
                                      ELSE IF details THEN "details" ELSE "false"]
                /\ UNCHANGED <<doneOrder, completions>>
    /\ UNCHANGED <<trusted, chat, responded, cpc, aborted, abortedReqs,
                   turnSession, session, offSched>>

\* executing: entered when scheduled is reached; execute is invoked
StartExecute(c) ==
    /\ tool_calls[c].status = "scheduled"
    /\ tool_calls' = [tool_calls EXCEPT ![c].status = "executing", ![c].executed = TRUE]
    /\ UNCHANGED <<trusted, completions, doneOrder, chat, responded, cpc, aborted,
                   abortedReqs, turnSession, session, offSched>>

\* execute returned without error, or raised or returned an error
FinishExecute(c) ==
    /\ tool_calls[c].status = "executing"
    /\ \E st \in {"success", "error"} : Finish([tool_calls EXCEPT ![c].status = st], c)
    /\ UNCHANGED <<trusted, chat, responded, cpc, aborted, abortedReqs,
                   turnSession, session, offSched>>

\* _handle_message with a confirmation pending: the input is a confirmation
\* command for call c, handle_confirmation(call_id, outcome) is called (cancel
\* rejects the call, the other outcomes start its execution, proceed_always also
\* trusts the tool), and the CLI goes on to _continue_after_confirmation
HandleConfirmation(c) ==
    /\ cpc \in {"confirm", "idle"}
    /\ tool_calls[c].status = "awaiting_approval"
    /\ cpc' = "continue"
    /\ \E o \in Outcomes :
          IF o = "cancel"
          THEN /\ Finish([tool_calls EXCEPT ![c].status = "cancelled",
                                            ![c].outcome = o], c)
               /\ UNCHANGED trusted
          ELSE /\ tool_calls' = [tool_calls EXCEPT ![c].status = "executing",
                                                   ![c].outcome = o,
                                                   ![c].executed = TRUE]
               /\ trusted' = IF o = "proceed_always"
                             THEN trusted \cup {tool_calls[c].kind} ELSE trusted
               /\ UNCHANGED <<doneOrder, completions>>
    /\ UNCHANGED <<chat, responded, aborted, abortedReqs, turnSession,
                   session, offSched>>

\* an abort that cancels whatever call it finds
AbortCancelsAny(st) == TRUE

\* the statuses in which a call is cancelled by an abort
AbortCancellable(st) == st \in {"awaiting_approval", "executing"}

\* the keyboard listener calls abort() while a response is being received
\* (in_response); the executions of the running batch get the signal
AbortSignal ==
    /\ cpc \in {"turn", "batch", "arbiter"}
    /\ ~ aborted
    /\ aborted' = TRUE
    /\ abortedReqs' = abortedReqs \cup
           {tool_calls[c].request_id : c \in
               {d \in 1..Len(tool_calls) : tool_calls[d].status \notin Terminal}}
    /\ UNCHANGED <<tool_calls, trusted, completions, doneOrder, chat, responded, cpc,
                   turnSession, session, offSched>>

\* a parked or executing call sees its signal aborted
ObserveAbort(c) ==
    /\ tool_calls[c].request_id \in abortedReqs
    /\ AbortCancellable(tool_calls[c].status)
    /\ Finish([tool_calls EXCEPT ![c].status = "cancelled"], c)
    /\ UNCHANGED <<trusted, chat, responded, cpc, aborted, abortedReqs,
                   turnSession, session, offSched>>

(***************************************************************************)
(* Chat, Turn and Client.                                                  *)
(***************************************************************************)
CallSeq(r) == SelectSeq([c \in 1..Len(tool_calls) |-> c],
                        LAMBDA c : tool_calls[c].request_id = r)

\* the responses of a batch in the order its calls finished
CompletionOrderResponses(r) ==
    LET ids == SelectSeq(doneOrder, LAMBDA c : tool_calls[c].request_id = r)
    IN  [k \in 1..Len(ids) |-> RespPart(ids[k])]

\* responses for the calls that were executed only
ExecutedOnlyResponses(r) ==
    LET ids == SelectSeq(CallSeq(r), LAMBDA c : tool_calls[c].executed)
    IN  [k \in 1..Len(ids) |-> RespPart(ids[k])]

\* the function_response parts of a batch, one per call, in call order
BatchResponses(r) ==
    LET ids == CallSeq(r) IN [k \in 1..Len(ids) |-> RespPart(ids[k])]

\* a Client without the cap on Turns
CapNeverReached == FALSE

\* max_session_turns: the Turns started in the session have reached the cap
CapReached == Len(turnSession) >= MaxTurns

\* the batches registered so far whose responses are not in Chat
PendingRequests == {r \in 1..Len(turnSession) : CallsOf(r) # {} /\ r \notin responded}

\* responses synthesized at the next append for the calls an abort left pending
Reconciled ==
    FlattenSeq([r \in 1..Len(turnSession) |->
        IF r \in PendingRequests THEN <<Content("user", BatchResponses(r))>> ELSE <<>>])

\* _handle_message with an input that is no confirmation command: reset the
\* signal; Client.send_message_stream appends the user content
UserMessage ==
    /\ cpc \in {"idle", "confirm"}
    /\ ~ CapReached
    /\ session < MaxSessions
    /\ aborted' = FALSE
    /\ session' = session + 1
    /\ chat' = chat \o Reconciled \o <<Content("user", <<TextPart("text")>>)>>
    /\ responded' = responded \cup PendingRequests
    /\ cpc' = "turn"
    /\ UNCHANGED <<tool_calls, trusted, completions, doneOrder, abortedReqs,
                   turnSession, offSched>>

\* Turn.run: stream one model response, flush it to Chat, register its calls
TurnRun ==
    /\ cpc = "turn"
    /\ ~ aborted
    /\ \E n \in 0..MaxBatch : \E kinds \in [1..n -> CallKinds] :
          LET r == Len(turnSession) + 1
              base == Len(tool_calls)
          IN  /\ turnSession' = Append(turnSession, session)
              /\ tool_calls' = tool_calls \o [k \in 1..n |-> NewCall(r, kinds[k])]
              /\ chat' = Append(chat, Content("model",
                             IF n = 0 THEN <<TextPart("text")>>
                             ELSE [k \in 1..n |-> CallPart(base + k)]))
              /\ cpc' = IF n = 0 THEN "arbiter" ELSE "batch"
    /\ UNCHANGED <<trusted, completions, doneOrder, responded, aborted, abortedReqs,
                   session, offSched>>

\* the batch holds a call the user explicitly rejected
BatchRejected(r) == \E c \in CallsOf(r) : tool_calls[c].outcome = "cancel"

\* Client loop 2b: the batch is complete; append its responses, then restart the
\* Turn with a bridge unless a call was rejected or the turn cap is reached
ClientBatchDone ==
    /\ cpc = "batch"
    /\ ~ aborted
    /\ LET r == Len(turnSession)
       IN  /\ r \in SeqRange(completions)
           /\ chat' = Append(chat, Content("user", BatchResponses(r)))
           /\ responded' = responded \cup {r}
           /\ cpc' = IF BatchRejected(r) \/ CapReached
                     THEN "idle" ELSE "turn"
    /\ UNCHANGED <<tool_calls, trusted, completions, doneOrder, aborted, abortedReqs,
                   turnSession, session, offSched>>

\* the Client sees the signal aborted: UserCancelled, nothing is appended
ClientAbortExit ==
    /\ cpc \in {"turn", "batch", "arbiter"}
    /\ aborted
    /\ cpc' = "idle"
    /\ UNCHANGED <<tool_calls, trusted, completions, doneOrder, chat, responded,
                   aborted, abortedReqs, turnSession, session, offSched>>

\* the CLI's event loop breaks at AwaitingConfirmation and waits for the user's
\* input; the stream of this send_message_stream is read no further
CliBreakOnConfirmation ==
    /\ cpc = "batch"
    /\ ~ aborted
    /\ \E c \in CallsOf(Len(turnSession)) : tool_calls[c].status = "awaiting_approval"
    /\ cpc' = "confirm"
    /\ UNCHANGED <<tool_calls, trusted, completions, doneOrder, chat, responded,
                   aborted, abortedReqs, turnSession, session, offSched>>

\* a continuation that resets the signal as a new user message does
SignalReset(a) == FALSE

\* lines 596-597: the continuation does not reset the signal
SignalKept(a) == a

\* the calls the CLI's poll counts as not finished
ActiveTools ==
    {c \in 1..Len(tool_calls) :
        tool_calls[c].status \in {"scheduled", "executing", "validating"}}

\* _continue_after_confirmation: wait until no tool is active or the wait is over,
\* then send "Please continue." with the signal as it is; the bridge is not
\* appended to Chat, the responses of the pending batches are
ContinueAfterConfirmation ==
    /\ cpc = "continue"
    /\ ~ CapReached
    /\ \E waitOver \in BOOLEAN : waitOver \/ ActiveTools = {}
    /\ aborted' = SignalKept(aborted)
    /\ chat' = chat \o Reconciled
    /\ responded' = responded \cup PendingRequests
    /\ cpc' = "turn"
    /\ UNCHANGED <<tool_calls, trusted, completions, doneOrder, abortedReqs,
                   turnSession, session, offSched>>

\* Client loop 2c: no tool calls; the arbiter names the next speaker
NextSpeaker ==
    /\ cpc = "arbiter"
    /\ ~ aborted
    /\ \E who \in {"user", "model"} :
          cpc' = IF who = "model" /\ ~ CapReached THEN "turn" ELSE "idle"
    /\ UNCHANGED <<tool_calls, trusted, completions, doneOrder, chat, responded,
                   aborted, abortedReqs, turnSession, session, offSched>>

SchedNext ==
    \/ UserMessage
    \/ TurnRun
    \/ \E c \in 1..Len(tool_calls) : Validate(c)
    \/ \E c \in 1..Len(tool_calls) : StartExecute(c)
    \/ \E c \in 1..Len(tool_calls) : FinishExecute(c)
    \/ \E c \in 1..Len(tool_calls) : HandleConfirmation(c)
    \/ AbortSignal
    \/ \E c \in 1..Len(tool_calls) : ObserveAbort(c)
    \/ ClientBatchDone
    \/ CliBreakOnConfirmation
    \/ ContinueAfterConfirmation
    \/ ClientAbortExit
    \/ NextSpeaker

(***************************************************************************)
(* SpecStream: one provider service object and the calls made on it.       *)
(* send_message_stream obtains the wire stream through                     *)
(* retry_with_backoff_sync(api_call), reads it event by event and yields   *)
(* chunks; an exception anywhere in it is caught and answered with one     *)
(* error chunk.  A wire event is [k, i, f]: its kind, the tool call it     *)
(* belongs to and the number of the argument fragment it carries.  The     *)
(* arguments of wire call i are the fragments <<i,1>> .. <<i,FragsPerCall>>*)
(* in this order.  A chunk is [text, calls, error]: whether it has the     *)
(* "text" key, its "function_calls" list, whether it has the "error" key.  *)
(***************************************************************************)
Providers == {"openai", "claude", "gemini"}

Ev(k, i, f) == [k |-> k, i |-> i, f |-> f]

NoCall == [set |-> FALSE, id |-> 0, name |-> 0, args |-> <<>>]

Chunk(t, cs, e) == [text |-> t, calls |-> cs, error |-> e]

\* the complete arguments of wire call i
CompleteArgs(i) == [f \in 1..FragsPerCall |-> <<i, f>>]

\* json.loads(arguments), `except: args = {}`: the text parses when it is the
\* complete arguments of one call
ParseArgs(frags) ==
    IF \E i \in 1..MaxWireCalls : frags = CompleteArgs(i) THEN frags ELSE <<>>

\* _create_error_chunk: {"type": "error", "error": msg, "text": "Error: " + msg}
ErrorChunk == Chunk(TRUE, <<>>, TRUE)

\* what the wire has delivered so far in the stream in hand
Started == {i \in 1..MaxWireCalls : \E n \in 1..Len(recv) :
               recv[n].k \in {"tool_start", "block_start_tool"} /\ recv[n].i = i}
FragsOf(i) == Cardinality({n \in 1..Len(recv) :
               recv[n].k \in {"tool_frag", "delta_json"} /\ recv[n].i = i})
LastStarted == IF Started = {} THEN 0 ELSE CHOOSE i \in Started : \A j \in Started : j <= i
Finished == \E n \in 1..Len(recv) :
               recv[n].k \in {"finish_tool_calls", "finish_stop", "message_stop"}

\* the block the Anthropic wire has open: "none", "text" or "tool"
RECURSIVE OpenBlockOf(_)
OpenBlockOf(evs) ==
    IF evs = <<>> THEN "none"
    ELSE LET e == evs[Len(evs)] IN
         CASE e.k = "block_start_text" -> "text"
           [] e.k = "block_start_tool" -> "tool"
           [] e.k \in {"block_stop", "message_stop"} -> "none"
           [] OTHER -> OpenBlockOf(SubSeq(evs, 1, Len(evs) - 1))
OpenBlock == OpenBlockOf(recv)

\* the events an OpenAI stream may deliver next: text deltas, then the tool calls
\* one after the other (a first delta with id and name, then argument deltas),
\* then the chunk with the finish_reason
OpenAINextEvents ==
    IF Finished THEN {}
    ELSE (IF Started = {} THEN {Ev("text", 0, 0), Ev("finish_stop", 0, 0)} ELSE {})
         \cup (IF LastStarted < MaxWireCalls
                  /\ (LastStarted = 0 \/ FragsOf(LastStarted) = FragsPerCall)
               THEN {Ev("tool_start", LastStarted + 1, 0)} ELSE {})
         \cup (IF LastStarted > 0 /\ FragsOf(LastStarted) < FragsPerCall
               THEN {Ev("tool_frag", LastStarted, FragsOf(LastStarted) + 1)} ELSE {})
         \cup (IF LastStarted > 0 /\ FragsOf(LastStarted) = FragsPerCall
               THEN {Ev("finish_tool_calls", 0, 0)} ELSE {})

\* the events an Anthropic stream may deliver next: content blocks, each opened,
\* filled with deltas and stopped, then message_stop
ClaudeNextEvents ==
    IF Finished THEN {}
    ELSE CASE OpenBlock = "none" ->
                {Ev("block_start_text", 0, 0), Ev("message_stop", 0, 0)}
                \cup (IF LastStarted < MaxWireCalls
                      THEN {Ev("block_start_tool", LastStarted + 1, 0)} ELSE {})
           [] OpenBlock = "text" -> {Ev("delta_text", 0, 0), Ev("block_stop", 0, 0)}
           [] OTHER ->
                IF FragsOf(LastStarted) < FragsPerCall
                THEN {Ev("delta_json", LastStarted, FragsOf(LastStarted) + 1)}
                ELSE {Ev("block_stop", 0, 0)}

\* a Gemini chunk: candidate parts with or without text, with i complete calls
GeminiNextEvents ==
    IF Len(recv) >= MaxChunks THEN {}
    ELSE {Ev(k, i, 0) : k \in {"parts_text", "parts_notext"}, i \in 0..MaxWireCalls}
         \ {Ev("parts_notext", 0, 0)}

NextEvents ==
    CASE sprov = "openai" -> OpenAINextEvents
      [] sprov = "claude" -> ClaudeNextEvents
      [] OTHER -> GeminiNextEvents

NoErr == [kind |-> "none", at |-> "none"]

CallEntry(c) == [id |-> c.id, name |-> c.name, args |-> ParseArgs(c.args)]

\* OpenAIService.send_message_stream, the body of `for chunk in stream` after the
\* abort test, with _process_openai_chunk: the new current_function_call and the
\* chunk to yield (Chunk(FALSE, <<>>, FALSE) when there is nothing to yield)
OpenAIProcess(c, e) ==
    LET delta == e.k \in {"tool_start", "tool_frag"}
        c1 == IF delta /\ ~ c.set
              THEN [set |-> TRUE,
                    id |-> IF e.k = "tool_start" THEN e.i ELSE 0,
                    name |-> IF e.k = "tool_start" THEN e.i ELSE 0,
                    args |-> <<>>]
              ELSE c
        c2 == IF e.k = "tool_frag" THEN [c1 EXCEPT !.args = Append(@, <<e.i, e.f>>)]
              ELSE c1
        calls == IF e.k = "finish_tool_calls" /\ c2.set THEN <<CallEntry(c2)>> ELSE <<>>
    IN  [cfc |-> IF calls # <<>> THEN NoCall ELSE c2,
         chunk |-> Chunk(e.k = "text", calls, FALSE)]

\* ClaudeService._process_claude_event, with self._current_tool_use
ClaudeProcess(c, e) ==
    CASE e.k = "block_start_tool" ->
            [cfc |-> [set |-> TRUE, id |-> e.i, name |-> e.i, args |-> <<>>],
             chunk |-> Chunk(FALSE, <<>>, FALSE)]
      [] e.k = "delta_text" -> [cfc |-> c, chunk |-> Chunk(TRUE, <<>>, FALSE)]
      [] e.k = "delta_json" ->
            [cfc |-> IF c.set THEN [c EXCEPT !.args = Append(@, <<e.i, e.f>>)] ELSE c,
             chunk |-> Chunk(FALSE, <<>>, FALSE)]
      [] e.k = "block_stop" ->
            IF c.set
            THEN [cfc |-> NoCall, chunk |-> Chunk(FALSE, <<CallEntry(c)>>, FALSE)]
            ELSE [cfc |-> c, chunk |-> Chunk(FALSE, <<>>, FALSE)]
      [] OTHER -> [cfc |-> c, chunk |-> Chunk(FALSE, <<>>, FALSE)]

\* GeminiService._process_chunk: the text of the chunk and its function calls,
\* which arrive complete
GeminiProcess(c, e) ==
    [cfc |-> c,
     chunk |-> Chunk(e.k = "parts_text",
                     [j \in 1..e.i |-> [id |-> j, name |-> j, args |-> CompleteArgs(j)]],
                     FALSE)]

Process(c, e) ==
    CASE sprov = "openai" -> OpenAIProcess(c, e)
      [] sprov = "claude" -> ClaudeProcess(c, e)
      [] OTHER -> GeminiProcess(c, e)

\* `if processed: yield processed` (OpenAI, Anthropic); `yield processed` (Gemini)
Yields(ch) == sprov = "gemini" \/ ch.text \/ ch.calls # <<>>

\* an except clause that lets the exception go
Reraise(chunks) == chunks

\* `except Exception as e: ... yield self._create_error_chunk(error_message)`
OnException(chunks) == Append(chunks, ErrorChunk)

\* the attempts the call in hand may make: RetryOptions.max_attempts where the
\* call goes through retry_with_backoff_sync, one where it does not
MaxAttemptsOf(prov, mode) ==
    IF mode = "stream" THEN StreamMaxAttempts
    ELSE IF prov = "gemini" THEN GeminiJsonMaxAttempts
    ELSE 1

\* retry_with_backoff_sync: another attempt after a transient error while attempts
\* are left
Retries(kind, made) == kind = "transient" /\ made < MaxAttemptsOf(sprov, smode)

\* the text a generate_json call gets back: a JSON object, a JSON object
\* with other text around it, or text that holds no JSON
JsonReplies == {"json", "json_in_text", "not_json"}

\* whether the reply parses: json.loads(response.text) (Gemini),
\* json.loads(response_text) (OpenAI), json.loads of the span from the first
\* "{" to the last "}" (Anthropic)
JsonParses(prov, reply) ==
    \/ reply = "json"
    \/ reply = "json_in_text" /\ prov = "claude"

\* a generate_json that lets the exception go
JsonReraise == "json_raised"

\* `except Exception as e: return {"next_speaker": "user", "reasoning": ...}`
JsonOnException == "json_default"

\* api_call(): the request is made; it succeeds or fails.  The reply of a
\* generate_json is parsed in the same try block
ApiCall ==
    /\ sphase = "start"
    /\ attempts' = attempts + 1
    /\ \E res \in {"ok", "transient", "permanent"} :
          IF res = "ok"
          THEN IF smode = "stream"
               THEN /\ sphase' = "open"
                    /\ UNCHANGED <<sended, out, serr>>
               ELSE /\ sphase' = "closed"
                    /\ \E reply \in JsonReplies :
                          IF JsonParses(sprov, reply)
                          THEN /\ sended' = IF reply = "json" THEN "json_ok"
                                            ELSE "json_extracted"
                               /\ serr' = serr
                          ELSE /\ sended' = JsonOnException
                               /\ serr' = [kind |-> "invalid_json", at |-> "parse"]
                    /\ out' = out
          ELSE IF Retries(res, attempts + 1)
          THEN UNCHANGED <<sphase, sended, out, serr>>
          ELSE /\ sphase' = "closed"
               /\ serr' = [kind |-> res, at |-> "start"]
               /\ sended' = IF smode = "stream" THEN "error" ELSE JsonOnException
               /\ out' = IF smode = "stream" THEN OnException(out) ELSE out
    /\ UNCHANGED <<sprov, smode, recv, cfc, nstreams, offStream>>

\* one iteration of the loop over the stream, the signal not aborted
StreamEvent ==
    /\ sphase = "open"
    /\ Len(recv) < MaxEvents
    /\ \E e \in NextEvents :
          LET r == Process(cfc, e)
          IN  /\ recv' = Append(recv, e)
              /\ cfc' = r.cfc
              /\ out' = IF Yields(r.chunk) THEN Append(out, r.chunk) ELSE out
    /\ UNCHANGED <<sprov, smode, sphase, attempts, nstreams, sended, serr, offStream>>

\* `if signal and signal.aborted: break`
StreamAbortBreak ==
    /\ sphase = "open"
    /\ sphase' = "closed"
    /\ sended' = "abort"
    /\ UNCHANGED <<sprov, smode, attempts, recv, out, cfc, nstreams, serr, offStream>>

\* reading the stream raises
StreamRaise ==
    /\ sphase = "open"
    /\ \E kind \in {"transient", "permanent"} : serr' = [kind |-> kind, at |-> "read"]
    /\ out' = OnException(out)
    /\ sphase' = "closed"
    /\ sended' = "error"
    /\ UNCHANGED <<sprov, smode, attempts, recv, cfc, nstreams, offStream>>

\* the stream is exhausted
StreamEof ==
    /\ sphase = "open"
    /\ sprov = "gemini" \/ Finished
    /\ sphase' = "closed"
    /\ sended' = "eof"
    /\ UNCHANGED <<sprov, smode, attempts, recv, out, cfc, nstreams, serr, offStream>>

\* the next call on the same service object: the locals of send_message_stream
\* are new, self._current_tool_use of ClaudeService is as the last call left it
StartCall ==
    /\ sphase = "closed"
    /\ nstreams < MaxStreams
    /\ nstreams' = nstreams + 1
    /\ \E m \in {"stream", "json"} : smode' = m
    /\ sphase' = "start"
    /\ attempts' = 0
    /\ recv' = <<>>
    /\ out' = <<>>
    /\ cfc' = IF sprov = "claude" THEN cfc ELSE NoCall
    /\ sended' = "none"
    /\ serr' = NoErr
    /\ UNCHANGED <<sprov, offStream>>

StreamNext ==
    \/ ApiCall
    \/ StreamEvent
    \/ StreamAbortBreak
    \/ StreamRaise
    \/ StreamEof
    \/ StartCall

(***************************************************************************)
(* SpecPoll: DbRheoCLI._continue_after_confirmation up to the sending of   *)
(* "Please continue.".  Times are in tenths of a second.  `waited` is the  *)
(* number of times poll_interval was added to the local `waited`; the      *)
(* scheduler may finish a call at any moment, and may never do so.         *)
(***************************************************************************)
ModelNames == {"gpt", "claude", "openai", "sonnet", "gemini", "other"}

\* line 555: any(model in model_lower for model in ['gpt', 'claude', 'openai', 'sonnet'])
NeedsStrictPairing(m) == m \in {"gpt", "claude", "openai", "sonnet"}

\* _get_model_wait_time, in tenths of a second
GetModelWaitTime(m) ==
    IF m \in {"claude", "gpt", "openai"} THEN ClaudeGptWaitTenths ELSE DefaultWaitTenths

\* a loop test that never ends the wait
NeverTimesOut(n) == TRUE

\* while waited < max_wait, after n additions of poll_interval: the additions
\* are made in binary floating point, where 50 additions of 0.1 give
\* 4.999999999999998, below 5.0; the test fails first after the 51st
WaitedBelowMax(n) == n * PollIntervalTenths <= MaxWaitTenths

\* lines 549-558 and 582-584: the branch on the model
StartWait ==
    /\ ppc = "start"
    /\ ppc' = IF NeedsStrictPairing(current_model)
              THEN (IF WaitedBelowMax(waited) THEN "poll" ELSE "send")
              ELSE "fixed"
    /\ UNCHANGED <<current_model, waited, polls, active, offPoll>>

\* lines 567-575: one evaluation of active_tools; break when there is none
PollCheck ==
    /\ ppc = "poll"
    /\ polls' = polls + 1
    /\ ppc' = IF active = 0 THEN "send" ELSE "sleep"
    /\ UNCHANGED <<current_model, waited, active, offPoll>>

\* lines 578-581: sleep(poll_interval), waited += poll_interval, loop test;
\* a failed test is the timeout, "proceeding anyway"
PollSleep ==
    /\ ppc = "sleep"
    /\ waited' = waited + 1
    /\ ppc' = IF WaitedBelowMax(waited') THEN "poll" ELSE "send"
    /\ UNCHANGED <<current_model, polls, active, offPoll>>

\* lines 584-587: await asyncio.sleep(wait_time) has returned
FixedWaitDone ==
    /\ ppc = "fixed"
    /\ waited' = GetModelWaitTime(current_model)
    /\ ppc' = "send"
    /\ UNCHANGED <<current_model, polls, active, offPoll>>

\* the scheduler brings an active call to a terminal status
ToolFinishes ==
    /\ ppc \in {"start", "poll", "sleep", "fixed"}
    /\ active > 0
    /\ active' = active - 1
    /\ UNCHANGED <<current_model, ppc, waited, polls, offPoll>>

\* lines 589-606: "Please continue." is sent
SendContinue ==
    /\ ppc = "send"
    /\ ppc' = "sent"
    /\ UNCHANGED <<current_model, waited, polls, active, offPoll>>

PollNext ==
    \/ StartWait
    \/ PollCheck
    \/ PollSleep
    \/ FixedWaitDone
    \/ ToolFinishes
    \/ SendContinue


(***************************************************************************)
(* SpecRisk: DatabaseRiskEvaluator.evaluate_sql_risk.  The SQL text is a   *)
(* sequence of tokens separated by blanks, upper-cased (every test of the  *)
(* code ignores case): the eight verbs, the keywords the patterns look     *)
(* for, the identifier "t", and "inj", a quoted fragment such as           *)
(* ' OR '1'='1 that is no word and matches an injection pattern.  The      *)
(* context is [fk, big]: whether foreign_keys is non-empty, and the tables *)
(* whose table_sizes entry exceeds 1000000.  Scores are the floats of the  *)
(* code, all of them whole numbers.                                        *)
(***************************************************************************)
Verbs == {"SELECT", "INSERT", "UPDATE", "DELETE", "CREATE", "ALTER", "DROP", "TRUNCATE"}

Tokens == Verbs \cup {"FROM", "SET", "WHERE", "TABLE", "JOIN", "t", "inj"}

Contexts == [fk : BOOLEAN, big : SUBSET {"t"}]

NoAssessment == [evaluated |-> FALSE]

\* \w+ matches the token
IsWord(tok) == tok # "inj"

\* 'X' in sql.upper()
Has(s, tok) == \E i \in 1..Len(s) : s[i] = tok

\* _extract_operation_type: the verb the text starts with
ExtractOperationType(s) ==
    IF s # <<>> /\ s[1] \in Verbs THEN s[1] ELSE "UNKNOWN"

\* re.findall of one pattern of _extract_table_names: keywords kws, then a
\* word that is captured; matches do not overlap
RECURSIVE FindAll(_, _, _)
FindAll(s, i, kws) ==
    LET n == Len(kws) IN
    IF i + n > Len(s) THEN {}
    ELSE IF (\A k \in 1..n : s[i + k - 1] = kws[k]) /\ IsWord(s[i + n])
         THEN {s[i + n]} \cup FindAll(s, i + n + 1, kws)
         ELSE FindAll(s, i + 1, kws)

\* _extract_table_names ("INSERT INTO" needs a token the texts do not have)
ExtractTableNames(s) ==
    UNION {FindAll(s, 1, kws) : kws \in
        {<<"FROM">>, <<"JOIN">>, <<"UPDATE">>, <<"INSERT", "INTO">>, <<"DELETE", "FROM">>,
         <<"CREATE", "TABLE">>, <<"ALTER", "TABLE">>, <<"DROP", "TABLE">>,
         <<"TRUNCATE", "TABLE">>}}

Adjacent(s, a, b) == \E i \in 1..(Len(s) - 1) : s[i] = a /\ s[i + 1] = b

\* re.search of the k-th of self.dangerous_patterns.  In the third and the
\* fourth the lookahead (?!WHERE) follows \s* or .*?, which may match
\* nothing, so it stands before a blank or inside a word and never fails:
\* the third matches DELETE FROM <word>, the fourth UPDATE <word> SET
\* followed by a blank, with or without a WHERE after them.
DangerousPattern(k, s) ==
    CASE k = 1 -> Adjacent(s, "DROP", "TABLE")
      [] k = 2 -> Adjacent(s, "TRUNCATE", "TABLE")
      [] k = 3 -> \E i \in 1..(Len(s) - 2) :
                     s[i] = "DELETE" /\ s[i + 1] = "FROM" /\ IsWord(s[i + 2])
      [] k = 4 -> \E i \in 1..(Len(s) - 3) :
                     s[i] = "UPDATE" /\ IsWord(s[i + 1]) /\ s[i + 2] = "SET"
      [] k = 5 -> \E i \in 1..(Len(s) - 2) : \E j \in (i + 2)..Len(s) :
                     s[i] = "ALTER" /\ s[i + 1] = "TABLE" /\ s[j] = "DROP"
      [] k = 6 -> Adjacent(s, "DROP", "DATABASE")
      [] k = 7 -> Adjacent(s, "DROP", "SCHEMA")

\* self.operation_weights.get(operation_type, 2.0) * 10
BaseScore(op) ==
    CASE op = "SELECT" -> 10 [] op = "INSERT" -> 20 [] op = "UPDATE" -> 30
      [] op = "DELETE" -> 40 [] op = "CREATE" -> 25 [] op = "ALTER" -> 45
      [] op = "DROP" -> 50 [] op = "TRUNCATE" -> 48 [] OTHER -> 20

\* _assess_operation_risk: 30 for every pattern that matches
AssessOperationRisk(op, s) ==
    BaseScore(op)
    + 30 * Cardinality({k \in 1..7 : DangerousPattern(k, s)})
    + (IF op \in {"DELETE", "UPDATE"} /\ ~ Has(s, "WHERE") THEN 25 ELSE 0)

\* _assess_scope_risk
AssessScopeRisk(tables, ctx) ==
    (IF Cardinality(tables) > 3 THEN 15 ELSE 0) + 20 * Cardinality(tables \cap ctx.big)

\* _assess_integrity_risk
AssessIntegrityRisk(s, ctx) ==
    IF (Has(s, "DELETE") \/ Has(s, "UPDATE")) /\ ctx.fk THEN 10 ELSE 0

\* len(re.findall(r'\bJOIN\b', sql))
JoinCount(s) == Cardinality({i \in 1..Len(s) : s[i] = "JOIN"})

\* _assess_performance_risk
AssessPerformanceRisk(s) ==
    (IF ~ Has(s, "WHERE") /\ Has(s, "SELECT") THEN 15 ELSE 0)
    + (IF JoinCount(s) > 2 THEN JoinCount(s) * 5 ELSE 0)

\* _assess_security_risk: 40 once, at the first injection pattern that matches
AssessSecurityRisk(s) == IF Has(s, "inj") THEN 40 ELSE 0

\* _calculate_risk_level
CalculateRiskLevel(score) ==
    IF score >= 80 THEN "critical"
    ELSE IF score >= 60 THEN "high"
    ELSE IF score >= 30 THEN "medium"
    ELSE "low"

\* a rule that asks for confirmation by the level alone
ConfirmsByLevelOnly(level, op, s) == level \in {"high", "critical"}

\* _requires_confirmation
RequiresConfirmation(level, op, s) ==
    \/ level \in {"high", "critical"}
    \/ op \in {"DROP", "TRUNCATE", "ALTER"}
    \/ op \in {"UPDATE", "DELETE"} /\ ~ Has(s, "WHERE")

\* a score returned as it was summed
Uncapped(total) == total

\* score=min(total_score, 100.0)
CappedScore(total) == IF total < 100 THEN total ELSE 100

\* evaluate_sql_risk; the axes are kept beside the fields of RiskAssessment
EvaluateSqlRisk(s, ctx) ==
    LET op     == ExtractOperationType(s)
        tables == ExtractTableNames(s)
        opRisk == AssessOperationRisk(op, s)
        scope  == AssessScopeRisk(tables, ctx)
        integ  == AssessIntegrityRisk(s, ctx)
        perf   == AssessPerformanceRisk(s)
        sec    == AssessSecurityRisk(s)
        total  == opRisk + scope + integ + perf + sec
        level  == CalculateRiskLevel(total)
    IN  [evaluated |-> TRUE, context |-> ctx,
         level |-> level, score |-> CappedScore(total),
         requires_confirmation |-> RequiresConfirmation(level, op, s),
         affected_tables |-> tables, operation_type |-> op,
         op_risk |-> opRisk, scope_risk |-> scope, integrity_risk |-> integ,
         perf_risk |-> perf, security_risk |-> sec]

\* the caller writes one more token of the statement
AppendToken ==
    /\ ~ assessment.evaluated
    /\ Len(sql) < MaxTokens
    /\ \E tok \in Tokens : sql' = Append(sql, tok)
    /\ UNCHANGED <<assessment, offRisk>>

\* evaluate_sql_risk(sql, context)
Evaluate ==
    /\ ~ assessment.evaluated
    /\ \E ctx \in Contexts : assessment' = EvaluateSqlRisk(sql, ctx)
    /\ UNCHANGED <<sql, offRisk>>

RiskNext == AppendToken \/ Evaluate

(***************************************************************************)
(* SpecTokens: TokenStatistics.  An optional integer is <<>> (None) or     *)
(* <<n>>; usage_data is a dict over some of the three keys.                *)
(***************************************************************************)
ModelIds == {"gemini", "gpt"}

UsageKeys == {"prompt_tokens", "completion_tokens", "total_tokens"}

OptionalInt == {<<>>} \cup {<<n>> : n \in 0..MaxCount}

UsageData == UNION {[K -> OptionalInt] : K \in SUBSET UsageKeys}

\* usage_data.get(key, 0)
GetOrZero(d, k) == IF k \in DOMAIN d THEN d[k] ELSE <<0>>

\* x or 0
OrZero(x) == IF x = <<>> THEN 0 ELSE x[1]

RECURSIVE SumSeq(_)
SumSeq(q) == IF q = <<>> THEN 0 ELSE Head(q) + SumSeq(Tail(q))

\* a grand total that forgets the completion tokens
PromptOnly(p, c) == p

\* line 71: 'total_tokens': total_prompt + total_completion
GrandTotal(p, c) == p + c

\* get_summary: lines 54-65, the entry of one model
ByModel(recs, m) ==
    LET mine == SelectSeq(recs, LAMBDA r : r.model = m)
    IN  [calls |-> Len(mine),
         prompt_tokens |-> SumSeq([i \in 1..Len(mine) |-> OrZero(mine[i].prompt_tokens)]),
         completion_tokens |->
             SumSeq([i \in 1..Len(mine) |-> OrZero(mine[i].completion_tokens)]),
         total_tokens |-> SumSeq([i \in 1..Len(mine) |-> OrZero(mine[i].total_tokens)])]

\* get_summary
GetSummary(recs) ==
    LET total_prompt == SumSeq([i \in 1..Len(recs) |-> OrZero(recs[i].prompt_tokens)])
        total_completion ==
            SumSeq([i \in 1..Len(recs) |-> OrZero(recs[i].completion_tokens)])
    IN  [total_calls |-> Len(recs),
         total_prompt_tokens |-> total_prompt,
         total_completion_tokens |-> total_completion,
         total_tokens |-> GrandTotal(total_prompt, total_completion),
         by_model |-> [m \in {recs[i].model : i \in 1..Len(recs)} |-> ByModel(recs, m)]]

\* add_usage(model, usage_data)
AddUsage ==
    /\ Len(records) < MaxRecords
    /\ \E m \in ModelIds : \E d \in UsageData :
          records' = Append(records,
              [model |-> m,
               prompt_tokens |-> GetOrZero(d, "prompt_tokens"),
               completion_tokens |-> GetOrZero(d, "completion_tokens"),
               total_tokens |-> GetOrZero(d, "total_tokens")])
    /\ UNCHANGED offTok

TokNext == AddUsage

(***************************************************************************)
(* SpecTool: the calls of one batch, each on one of the three tools, taken *)
(* through the scheduler's statuses.  validate_tool_params and             *)
(* should_confirm_execute are those of the tools; the steps between the    *)
(* statuses are the scheduler's.  A call is [tool, params, status, invoked,*)
(* response, awaited]: the methods of the tool invoked for it, the         *)
(* function_response produced for it, and whether AwaitingConfirmation was *)
(* emitted for it.  An export path is "" or stands for a class of paths:   *)
(* "out.csv" and "out.txt" inside the allowed directories, "/etc/out.csv"  *)
(* outside them; `exists` says whether the file is there.  The action of a *)
(* connect call is one of the tool's, or "missing" when the key is absent. *)
(* The batch runs with its abort signal not fired.                         *)
(***************************************************************************)
SchemaParams == [pattern : {"", "user%"}]

ConnectParams ==
    [action : {"missing", "connect", "test", "list", "switch"},
     connection_string : {"", "sqlite:///a.db"},
     database_name : {"", "main"}]

ExportParams ==
    [sql : {"", "SELECT 1"},
     output_path : {"", "out.csv", "out.txt", "/etc/out.csv"},
     format : {"", "csv"},
     exists : BOOLEAN,
     append : BOOLEAN]

ToolInputs ==
    {[tool |-> "schema_discovery", params |-> q] : q \in SchemaParams}
    \cup {[tool |-> "database_connect", params |-> q] : q \in ConnectParams}
    \cup {[tool |-> "database_export", params |-> q] : q \in ExportParams}

\* a validate_tool_params that accepts everything
ValidatesNothing(params) == "none"

\* DatabaseConnectTool.validate_tool_params: the message, or "none" for None
ConnectValidate(params) ==
    LET action == IF params.action = "missing" THEN "connect" ELSE params.action
    IN  IF action \in {"connect", "test"} /\ params.connection_string = ""
        THEN "db_connect_need_connection_string"
        ELSE IF action = "switch" /\ params.database_name = ""
        THEN "db_connect_need_database_name"
        ELSE "none"

\* SchemaDiscoveryTool.validate_tool_params
SchemaValidate(params) == "none"

\* DatabaseExportTool.validate_tool_params
ExportValidate(params) ==
    IF params.sql = "" THEN "export_sql_empty"
    ELSE IF params.output_path = "" THEN "export_path_empty"
    ELSE IF params.output_path = "/etc/out.csv" THEN "export_path_not_allowed"
    ELSE IF params.format = "" /\ params.output_path = "out.txt"
    THEN "export_format_unsupported"
    ELSE "none"

ToolValidate(tool, params) ==
    CASE tool = "schema_discovery" -> SchemaValidate(params)
      [] tool = "database_connect" -> ConnectValidate(params)
      [] tool = "database_export" -> ExportValidate(params)

\* a connect tool that asks before it connects
ConfirmsConnect(params) == params.action \in {"missing", "connect"}

\* DatabaseConnectTool.should_confirm_execute
ConnectShouldConfirm(params) == FALSE

\* SchemaDiscoveryTool.should_confirm_execute
SchemaShouldConfirm(params) == FALSE

\* DatabaseExportTool.should_confirm_execute: details iff the file exists and
\* the export does not append
ExportShouldConfirm(params) == params.exists /\ ~ params.append

ToolShouldConfirm(tool, params) ==
    CASE tool = "schema_discovery" -> SchemaShouldConfirm(params)
      [] tool = "database_connect" -> ConnectShouldConfirm(params)
      [] tool = "database_export" -> ExportShouldConfirm(params)

\* the Turn registers the calls of a model response
RegisterBatch ==
    /\ tcalls = <<>>
    /\ \E n \in 1..MaxBatch : \E ins \in [1..n -> ToolInputs] :
          tcalls' = [k \in 1..n |->
              [tool |-> ins[k].tool, params |-> ins[k].params, status |-> "validating",
               invoked |-> {}, response |-> "none", awaited |-> FALSE]]
    /\ UNCHANGED offTool

\* validating: validate runs; on error the call is marked error with the
\* validation message as its function_response; else should_confirm runs
ToolValidateStep(c) ==
    /\ tcalls[c].status = "validating"
    /\ LET msg == ToolValidate(tcalls[c].tool, tcalls[c].params)
           ask == ToolShouldConfirm(tcalls[c].tool, tcalls[c].params)
       IN  tcalls' =
             IF msg # "none"
             THEN [tcalls EXCEPT ![c].status = "error", ![c].response = msg,
                                 ![c].invoked = {"validate"}]
             ELSE [tcalls EXCEPT ![c].status = IF ask THEN "awaiting_approval"
                                               ELSE "scheduled",
                                 ![c].awaited = ask,
                                 ![c].invoked = {"validate", "should_confirm"}]
    /\ UNCHANGED offTool

\* awaiting_approval: the user approves or rejects
ToolConfirm(c) ==
    /\ tcalls[c].status = "awaiting_approval"
    /\ \E ok \in BOOLEAN :
          tcalls' = IF ok
                    THEN [tcalls EXCEPT ![c].status = "executing",
                                        ![c].invoked = @ \cup {"execute"}]
                    ELSE [tcalls EXCEPT ![c].status = "cancelled",
                                        ![c].response = "cancelled"]
    /\ UNCHANGED offTool

\* scheduled: execute is invoked
ToolStart(c) ==
    /\ tcalls[c].status = "scheduled"
    /\ tcalls' = [tcalls EXCEPT ![c].status = "executing",
                                ![c].invoked = @ \cup {"execute"}]
    /\ UNCHANGED offTool

\* executing: execute returns a result or an error
ToolFinish(c) ==
    /\ tcalls[c].status = "executing"
    /\ \E st \in {"success", "error"} :
          tcalls' = [tcalls EXCEPT ![c].status = st,
                                   ![c].response = IF st = "success" THEN "result"
                                                   ELSE "execution_error"]
    /\ UNCHANGED offTool

ToolNext ==
    \/ RegisterBatch
    \/ \E c \in 1..Len(tcalls) : ToolValidateStep(c)
    \/ \E c \in 1..Len(tcalls) : ToolConfirm(c)
    \/ \E c \in 1..Len(tcalls) : ToolStart(c)
    \/ \E c \in 1..Len(tcalls) : ToolFinish(c)

(***************************************************************************)
(* SpecPrep: _prepare_contents applied to any list of dict contents, and   *)
(* then to its own result.  A content has one of the three roles and up to *)
(* MaxRawParts parts; a part has one of the five keys the function reads,  *)
(* with an empty or a non-empty payload.                                   *)
(***************************************************************************)
RawKinds == {"function_call", "function_response", "functionCall", "functionResponse"}

RawParts ==
    {TextPart(t) : t \in {"", "text"}}
    \cup {[kind |-> k, text |-> "", id |-> i] : k \in RawKinds, i \in 0..1}

RawPartSeqs == UNION {[1..n -> RawParts] : n \in 0..MaxRawParts}

RawContents == {Content(r, ps) : r \in {"user", "model", "tool"}, ps \in RawPartSeqs}

\* one more content in the list handed to the service
AddRawContent ==
    /\ Len(raw) < MaxRaw
    /\ prepared = <<>>
    /\ \E c \in RawContents : raw' = Append(raw, c)
    /\ UNCHANGED <<prepared, offPrep>>

\* request_contents = self._prepare_contents(contents)
PrepareContents ==
    /\ prepared = <<>>
    /\ prepared' = <<GeminiPrepareContents(raw)>>
    /\ UNCHANGED <<raw, offPrep>>

\* _prepare_contents on what it returned
PrepareAgain ==
    /\ Len(prepared) = 1
    /\ prepared' = Append(prepared, GeminiPrepareContents(prepared[1]))
    /\ UNCHANGED <<raw, offPrep>>

PrepNext == AddRawContent \/ PrepareContents \/ PrepareAgain

(***************************************************************************)
(* SpecChat: the Chat history, its curated view and compression.  A text   *)
(* is short or long (one or two estimated tokens); a function_response is  *)
(* a result or the response of a cancelled call with no output.  The       *)
(* summary is the text the LLM returns, one of two.                        *)
(***************************************************************************)
LongText == "long text"
CancelledResp(i) == [kind |-> "function_response", text |-> "cancelled", id |-> i]

SummaryTexts == {"[prior-context-summary] a", "[prior-context-summary] b"}
SummaryContent(t) == Content("user", <<TextPart(t)>>)
IsSummary(c) == c \in {SummaryContent(t) : t \in SummaryTexts}

\* the ids of the calls of h whose response is that of a cancelled call
CancelledIds(h) ==
    UNION {{h[i].parts[k].id : k \in {k \in 1..Len(h[i].parts) :
                                         h[i].parts[k] = CancelledResp(h[i].parts[k].id)}} :
           i \in 1..Len(h)}

\* a curation that drops the first model turn of what it is given
InvalidFirstModelTurn(h, i) ==
    /\ h[i].role = "model"
    /\ \A j \in 1..(i - 1) : h[j].role # "model"

\* a model turn is invalid if it is empty or contains only function_calls
\* whose paired response was cancelled with no useful output
IsInvalidModelTurn(h, i) ==
    /\ h[i].role = "model"
    /\ \A k \in 1..Len(h[i].parts) :
          /\ h[i].parts[k].kind = "function_call"
          /\ h[i].parts[k].id \in CancelledIds(h)

RECURSIVE CurateFrom(_, _)
CurateFrom(h, i) ==
    IF i > Len(h) THEN <<>>
    ELSE (IF IsInvalidModelTurn(h, i) THEN <<>> ELSE <<h[i]>>) \o CurateFrom(h, i + 1)

\* get_history(curated = True)
Curate(h) == CurateFrom(h, 1)

ContentTokens(c) ==
    IF \E k \in 1..Len(c.parts) : c.parts[k].text = LongText THEN 2 ELSE 1

RECURSIVE EstimateTokens(_)
EstimateTokens(h) ==
    IF h = <<>> THEN 0 ELSE ContentTokens(Head(h)) + EstimateTokens(Tail(h))

\* a compression that summarizes the summary again
NeverExempt(fresh, prefix) == FALSE

\* the summary itself is exempt from re-summarization for one turn
SummaryExempt(fresh, prefix) ==
    fresh /\ \A k \in 1..Len(prefix) : IsSummary(prefix[k])

\* compression of h, the LLM returning the summary text t
Compress(h, fresh, t) ==
    LET prefix == SubSeq(h, 1, Len(h) - KeepRecent)
        recent == SubSeq(h, Len(h) - KeepRecent + 1, Len(h))
    IN  IF \/ EstimateTokens(Curate(h)) <= CompressionThreshold
           \/ Len(h) <= KeepRecent
           \/ SummaryExempt(fresh, prefix)
        THEN h
        ELSE <<SummaryContent(t)>> \o recent

ChatUnanswered(h) == HistCallIds(h) \ HistRespIds(h)

\* the id of the next call: above every id the history holds
ChatNextId(h) ==
    LET ids == HistCallIds(h) \cup HistRespIds(h)
    IN  IF ids = {} THEN 1 ELSE (CHOOSE m \in ids : \A x \in ids : x <= m) + 1

ChatContents(h) ==
    {Content("user", <<TextPart(t)>>) : t \in {"text", LongText}}
    \cup {Content("model", <<TextPart(t)>>) : t \in {"text", LongText}}
    \cup {Content("model", <<>>)}
    \cup (IF ChatNextId(h) > MaxChatCalls THEN {}
          ELSE {Content("model", <<CallPart(ChatNextId(h))>>),
                Content("model", <<TextPart("text"), CallPart(ChatNextId(h))>>)})
    \cup {Content("user", <<RespPart(i)>>) : i \in ChatUnanswered(h)}
    \cup {Content("user", <<CancelledResp(i)>>) : i \in ChatUnanswered(h)}

\* add(content)
ChatAdd ==
    /\ Len(clog) < MaxLog
    /\ \E c \in ChatContents(clog) : clog' = Append(clog, c)
    /\ cviews' = <<>>
    /\ csnaps' = <<>>
    /\ cfresh' = FALSE
    /\ UNCHANGED offChat

\* get_history(curated = True)
GetCurated ==
    /\ cviews = <<>>
    /\ cviews' = <<Curate(clog)>>
    /\ UNCHANGED <<clog, csnaps, cfresh, offChat>>

\* curation of a curated history
CurateAgain ==
    /\ Len(cviews) = 1
    /\ cviews' = Append(cviews, Curate(cviews[1]))
    /\ UNCHANGED <<clog, csnaps, cfresh, offChat>>

\* compression: the threshold is tested, the prefix is summarized and
\* replaced, the history is replaced
TryCompress ==
    /\ Len(csnaps) < 2
    /\ \E t \in SummaryTexts :
          LET new == Compress(clog, cfresh, t)
          IN  /\ clog' = new
              /\ csnaps' = Append(csnaps, Curate(new))
              /\ cfresh' = (cfresh \/ new # clog)
    /\ cviews' = <<>>
    /\ UNCHANGED offChat

ChatNext == ChatAdd \/ GetCurated \/ CurateAgain \/ TryCompress

(***************************************************************************)
(* SpecExport: the loop of _export_csv and _export_json over the batches   *)
(* of one query.  The query is [nrows, limit, batch]: the number of rows   *)
(* the SQL text returns when executed as it is, whether the text contains  *)
(* LIMIT, and batch_size.  Row r of the result is the number r; the        *)
(* database returns the rows in the same order at every execution.  The    *)
(* count of a row stops at 2 (written twice or more), the offset stops at  *)
(* OffsetCap, beyond every result, and the passes are counted modulo 2.    *)
(***************************************************************************)
NoQuery == [nrows |-> 0, limit |-> FALSE, batch |-> 0]

Queries == [nrows : 0..MaxRows, limit : BOOLEAN, batch : 1..MaxBatchSize]

OffsetCap == MaxRows + MaxBatchSize

Min2(a, b) == IF a <= b THEN a ELSE b

\* _apply_pagination and adapter.execute_query: the rows the paginated SQL
\* returns; a text with LIMIT is executed unchanged, else LIMIT batch OFFSET
\* offset is appended
ExecutePaginated(q, offset) ==
    IF q.limit
    THEN 1..q.nrows
    ELSE {r \in 1..q.nrows : offset < r /\ r <= offset + q.batch}

\* execute has chosen the format; the file is opened, offset = 0
ExportBegin ==
    /\ xpc = "idle"
    /\ \E q \in Queries :
          /\ xq' = q
          /\ xwritten' = [r \in 1..q.nrows |-> 0]
    /\ xoffset' = 0
    /\ xpasses' = 0
    /\ xpc' = "loop"
    /\ UNCHANGED offExport

\* one pass of `while True`: query, `if not rows: break`, write the rows,
\* offset += batch_size, `if len(rows) < batch_size: break`
ExportBatch ==
    /\ xpc = "loop"
    /\ xpasses' = (xpasses + 1) % 2
    /\ LET rows == ExecutePaginated(xq, xoffset)
       IN  IF rows = {}
           THEN /\ xpc' = "done"
                /\ UNCHANGED <<xoffset, xwritten>>
           ELSE /\ xwritten' = [r \in 1..xq.nrows |->
                                   IF r \in rows THEN Min2(xwritten[r] + 1, 2)
                                   ELSE xwritten[r]]
                /\ xoffset' = Min2(xoffset + xq.batch, OffsetCap)
                /\ xpc' = IF Cardinality(rows) < xq.batch THEN "done" ELSE "loop"
    /\ UNCHANGED <<xq, offExport>>

ExportNext == ExportBegin \/ ExportBatch

(***************************************************************************)
(* SpecAdapter: the executions that connect an adapter for their own use:  *)
(* SchemaDiscoveryTool.execute, DatabaseExportTool.execute and             *)
(* DatabaseConnectTool._test_connection.  Each awaited call on the adapter *)
(* is a step that returns or raises.  An execution is [tool, format,       *)
(* has_health, has_version]: the export format, and whether the adapter    *)
(* has health_check and get_version.  disconnect itself does not fail.     *)
(***************************************************************************)
NoExec == [tool |-> "none", format |-> "none", has_health |-> FALSE, has_version |-> FALSE]

Execs ==
    {[tool |-> "schema_discovery", format |-> "none", has_health |-> FALSE,
      has_version |-> v] : v \in BOOLEAN}
    \cup {[tool |-> "export_data", format |-> f, has_health |-> FALSE,
           has_version |-> FALSE] : f \in {"csv", "json", "excel", "sql", "xml"}}
    \cup {[tool |-> "test", format |-> "none", has_health |-> h, has_version |-> v] :
             h \in BOOLEAN, v \in BOOLEAN}

\* the calls the execution awaits on its adapter between connect and the
\* end of its work, in order
ExecPlan(e) ==
    CASE e.tool = "schema_discovery" ->
            <<"get_schema_info">> \o (IF e.has_version THEN <<"get_version">> ELSE <<>>)
      [] e.tool = "export_data" ->
            IF e.format \in {"csv", "json", "excel", "sql"} THEN <<"export">> ELSE <<>>
      [] e.tool = "test" ->
            <<IF e.has_health THEN "health_check" ELSE "execute_query">>
            \o (IF e.has_version THEN <<"get_version">> ELSE <<>>)
      [] OTHER -> <<>>

\* whether the work of the tool stands inside try ... finally: disconnect
HasFinally(e) == e.tool \in {"schema_discovery", "export_data"}

\* schema_discovery reads the version inside its own try / except
Swallowed(e, call) == e.tool = "schema_discovery" /\ call = "get_version"

\* what the execution returns when its work ends without exception
WorkResult(e) ==
    IF e.tool = "export_data" /\ ExecPlan(e) = <<>> THEN "error" ELSE "success"

\* the next call of the plan, or "none" when the work is done
NextCall == IF Len(acalls) - 1 < Len(ExecPlan(aexec))
            THEN ExecPlan(aexec)[Len(acalls)] ELSE "none"

\* execute is entered
ExecStart ==
    /\ apc \in {"idle", "returned"}
    /\ nexecs < MaxExecs
    /\ nexecs' = nexecs + 1
    /\ \E e \in Execs : aexec' = e
    /\ apc' = "connect"
    /\ acalls' = <<>>
    /\ aresult' = "none"
    /\ UNCHANGED <<aopen, offAdapter>>

\* await adapter.connect(): it connects, or raises into `except Exception`
AdapterConnect ==
    /\ apc = "connect"
    /\ acalls' = Append(acalls, "connect")
    /\ \E ok \in BOOLEAN :
          IF ok
          THEN /\ aopen' = aopen + 1
               /\ apc' = "work"
               /\ aresult' = aresult
          ELSE /\ aopen' = aopen
               /\ apc' = "returned"
               /\ aresult' = "error"
    /\ UNCHANGED <<aexec, nexecs, offAdapter>>

\* the next awaited call of the work; when it raises, control goes to the
\* finally clause where there is one, else straight to `except Exception`
AdapterWork ==
    /\ apc = "work"
    /\ NextCall # "none"
    /\ acalls' = Append(acalls, NextCall)
    /\ \E ok \in BOOLEAN :
          IF ok \/ Swallowed(aexec, NextCall)
          THEN /\ apc' = "work"
               /\ aresult' = aresult
          ELSE /\ apc' = IF HasFinally(aexec) THEN "disconnect" ELSE "returned"
               /\ aresult' = "error"
    /\ UNCHANGED <<aexec, aopen, nexecs, offAdapter>>

\* the work is done: the finally clause, or the disconnect of
\* _test_connection, is reached
AdapterWorkDone ==
    /\ apc = "work"
    /\ NextCall = "none"
    /\ apc' = "disconnect"
    /\ aresult' = WorkResult(aexec)
    /\ UNCHANGED <<aexec, acalls, aopen, nexecs, offAdapter>>

\* await adapter.disconnect(), and the return
AdapterDisconnect ==
    /\ apc = "disconnect"
    /\ acalls' = Append(acalls, "disconnect")
    /\ aopen' = aopen - 1
    /\ apc' = "returned"
    /\ UNCHANGED <<aexec, aresult, nexecs, offAdapter>>

AdapterNext ==
    \/ ExecStart
    \/ AdapterConnect
    \/ AdapterWork
    \/ AdapterWorkDone
    \/ AdapterDisconnect

(***************************************************************************)
(* Specifications.                                                         *)
(***************************************************************************)
vars == <<convVars, abortVars, schedVars, streamVars, pollVars, riskVars, tokVars, toolVars, prepVars, chatVars, exportVars, adapterVars>>

\* the converters: an empty history, nothing converted, no stream
ConvInit ==
    /\ hist = <<>>
    /\ sysInstr \in BOOLEAN
    /\ omsgs = <<>>
    /\ cmsgs = <<>>
    /\ convDone = {}
    /\ wire = <<>>
    /\ spc = "done"
    /\ cur = "none"
    /\ closed = FALSE
    /\ signalAborted = FALSE
    /\ pseen = FALSE
    /\ cseen = FALSE
    /\ yielded = <<>>
    /\ shown = <<>>
    /\ tool_calls = <<>>
    /\ trusted = {}
    /\ completions = <<>>
    /\ doneOrder = <<>>
    /\ chat = <<>>
    /\ responded = {}
    /\ cpc = "idle"
    /\ aborted = FALSE
    /\ abortedReqs = {}
    /\ turnSession = <<>>
    /\ session = 0
    /\ gmsgs = <<>>
    /\ sprov = "none"
    /\ smode = "none"
    /\ sphase = "idle"
    /\ attempts = 0
    /\ recv = <<>>
    /\ out = <<>>
    /\ cfc = NoCall
    /\ nstreams = 0
    /\ sended = "none"
    /\ serr = NoErr
    /\ current_model = "none"
    /\ ppc = "idle"
    /\ waited = 0
    /\ polls = 0
    /\ active = 0
    /\ sql = <<>>
    /\ assessment = NoAssessment
    /\ records = <<>>
    /\ tcalls = <<>>
    /\ raw = <<>>
    /\ prepared = <<>>
    /\ clog = <<>>
    /\ cviews = <<>>
    /\ csnaps = <<>>
    /\ cfresh = FALSE
    /\ xq = NoQuery
    /\ xoffset = 0
    /\ xwritten = <<>>
    /\ xpc = "idle"
    /\ xpasses = 0
    /\ aexec = NoExec
    /\ apc = "idle"
    /\ acalls = <<>>
    /\ aresult = "none"
    /\ aopen = 0
    /\ nexecs = 0

SpecConv == ConvInit /\ [][ConvNext]_vars

\* one stream about to be read, the signal reset by _handle_message
AbortInit ==
    /\ hist = <<>>
    /\ sysInstr = FALSE
    /\ omsgs = <<>>
    /\ cmsgs = <<>>
    /\ convDone = {}
    /\ wire \in WireStreams
    /\ spc = "fetch"
    /\ cur = "none"
    /\ closed = FALSE
    /\ signalAborted = FALSE
    /\ pseen = FALSE
    /\ cseen = FALSE
    /\ yielded = <<>>
    /\ shown = <<>>
    /\ tool_calls = <<>>
    /\ trusted = {}
    /\ completions = <<>>
    /\ doneOrder = <<>>
    /\ chat = <<>>
    /\ responded = {}
    /\ cpc = "idle"
    /\ aborted = FALSE
    /\ abortedReqs = {}
    /\ turnSession = <<>>
    /\ session = 0
    /\ gmsgs = <<>>
    /\ sprov = "none"
    /\ smode = "none"
    /\ sphase = "idle"
    /\ attempts = 0
    /\ recv = <<>>
    /\ out = <<>>
    /\ cfc = NoCall
    /\ nstreams = 0
    /\ sended = "none"
    /\ serr = NoErr
    /\ current_model = "none"
    /\ ppc = "idle"
    /\ waited = 0
    /\ polls = 0
    /\ active = 0
    /\ sql = <<>>
    /\ assessment = NoAssessment
    /\ records = <<>>
    /\ tcalls = <<>>
    /\ raw = <<>>
    /\ prepared = <<>>
    /\ clog = <<>>
    /\ cviews = <<>>
    /\ csnaps = <<>>
    /\ cfresh = FALSE
    /\ xq = NoQuery
    /\ xoffset = 0
    /\ xwritten = <<>>
    /\ xpc = "idle"
    /\ xpasses = 0
    /\ aexec = NoExec
    /\ apc = "idle"
    /\ acalls = <<>>
    /\ aresult = "none"
    /\ aopen = 0
    /\ nexecs = 0

SpecAbort == AbortInit /\ [][AbortNext]_vars

SchedInit ==
    /\ tool_calls = <<>>
    /\ trusted = {}
    /\ completions = <<>>
    /\ doneOrder = <<>>
    /\ chat = <<>>
    /\ responded = {}
    /\ cpc = "idle"
    /\ aborted = FALSE
    /\ abortedReqs = {}
    /\ turnSession = <<>>
    /\ session = 0
    /\ hist = <<>>
    /\ sysInstr = FALSE
    /\ omsgs = <<>>
    /\ cmsgs = <<>>
    /\ convDone = {}
    /\ wire = <<>>
    /\ spc = "done"
    /\ cur = "none"
    /\ closed = FALSE
    /\ signalAborted = FALSE
    /\ pseen = FALSE
    /\ cseen = FALSE
    /\ yielded = <<>>
    /\ shown = <<>>
    /\ gmsgs = <<>>
    /\ sprov = "none"
    /\ smode = "none"
    /\ sphase = "idle"
    /\ attempts = 0
    /\ recv = <<>>
    /\ out = <<>>
    /\ cfc = NoCall
    /\ nstreams = 0
    /\ sended = "none"
    /\ serr = NoErr
    /\ current_model = "none"
    /\ ppc = "idle"
    /\ waited = 0
    /\ polls = 0
    /\ active = 0
    /\ sql = <<>>
    /\ assessment = NoAssessment
    /\ records = <<>>
    /\ tcalls = <<>>
    /\ raw = <<>>
    /\ prepared = <<>>
    /\ clog = <<>>
    /\ cviews = <<>>
    /\ csnaps = <<>>
    /\ cfresh = FALSE
    /\ xq = NoQuery
    /\ xoffset = 0
    /\ xwritten = <<>>
    /\ xpc = "idle"
    /\ xpasses = 0
    /\ aexec = NoExec
    /\ apc = "idle"
    /\ acalls = <<>>
    /\ aresult = "none"
    /\ aopen = 0
    /\ nexecs = 0

SpecSched == SchedInit /\ [][SchedNext]_vars

\* a service object just constructed, and the first call on it
StreamInit ==
    /\ tool_calls = <<>>
    /\ trusted = {}
    /\ completions = <<>>
    /\ doneOrder = <<>>
    /\ chat = <<>>
    /\ responded = {}
    /\ cpc = "idle"
    /\ aborted = FALSE
    /\ abortedReqs = {}
    /\ turnSession = <<>>
    /\ session = 0
    /\ hist = <<>>
    /\ sysInstr = FALSE
    /\ omsgs = <<>>
    /\ cmsgs = <<>>
    /\ convDone = {}
    /\ wire = <<>>
    /\ spc = "done"
    /\ cur = "none"
    /\ closed = FALSE
    /\ signalAborted = FALSE
    /\ pseen = FALSE
    /\ cseen = FALSE
    /\ yielded = <<>>
    /\ shown = <<>>
    /\ gmsgs = <<>>
    /\ sprov \in Providers
    /\ smode \in {"stream", "json"}
    /\ sphase = "start"
    /\ attempts = 0
    /\ recv = <<>>
    /\ out = <<>>
    /\ cfc = NoCall
    /\ nstreams = 1
    /\ sended = "none"
    /\ serr = NoErr
    /\ current_model = "none"
    /\ ppc = "idle"
    /\ waited = 0
    /\ polls = 0
    /\ active = 0
    /\ sql = <<>>
    /\ assessment = NoAssessment
    /\ records = <<>>
    /\ tcalls = <<>>
    /\ raw = <<>>
    /\ prepared = <<>>
    /\ clog = <<>>
    /\ cviews = <<>>
    /\ csnaps = <<>>
    /\ cfresh = FALSE
    /\ xq = NoQuery
    /\ xoffset = 0
    /\ xwritten = <<>>
    /\ xpc = "idle"
    /\ xpasses = 0
    /\ aexec = NoExec
    /\ apc = "idle"
    /\ acalls = <<>>
    /\ aresult = "none"
    /\ aopen = 0
    /\ nexecs = 0

SpecStream == StreamInit /\ [][StreamNext]_vars

PollInit ==
    /\ tool_calls = <<>>
    /\ trusted = {}
    /\ completions = <<>>
    /\ doneOrder = <<>>
    /\ chat = <<>>
    /\ responded = {}
    /\ cpc = "idle"
    /\ aborted = FALSE
    /\ abortedReqs = {}
    /\ turnSession = <<>>
    /\ session = 0
    /\ hist = <<>>
    /\ sysInstr = FALSE
    /\ omsgs = <<>>
    /\ cmsgs = <<>>
    /\ convDone = {}
    /\ wire = <<>>
    /\ spc = "done"
    /\ cur = "none"
    /\ closed = FALSE
    /\ signalAborted = FALSE
    /\ pseen = FALSE
    /\ cseen = FALSE
    /\ yielded = <<>>
    /\ shown = <<>>
    /\ gmsgs = <<>>
    /\ sprov = "none"
    /\ smode = "none"
    /\ sphase = "idle"
    /\ attempts = 0
    /\ recv = <<>>
    /\ out = <<>>
    /\ cfc = NoCall
    /\ nstreams = 0
    /\ sended = "none"
    /\ serr = NoErr
    /\ current_model \in ModelNames
    /\ ppc = "start"
    /\ waited = 0
    /\ polls = 0
    /\ active \in 0..MaxBatch
    /\ sql = <<>>
    /\ assessment = NoAssessment
    /\ records = <<>>
    /\ tcalls = <<>>
    /\ raw = <<>>
    /\ prepared = <<>>
    /\ clog = <<>>
    /\ cviews = <<>>
    /\ csnaps = <<>>
    /\ cfresh = FALSE
    /\ xq = NoQuery
    /\ xoffset = 0
    /\ xwritten = <<>>
    /\ xpc = "idle"
    /\ xpasses = 0
    /\ aexec = NoExec
    /\ apc = "idle"
    /\ acalls = <<>>
    /\ aresult = "none"
    /\ aopen = 0
    /\ nexecs = 0

SpecPoll == PollInit /\ [][PollNext]_vars

\* the asyncio event loop resumes a coroutine whose sleep is over and runs it
\* to its next await: every step of the wait is taken once it is enabled.
\* Nothing makes the scheduler finish a call.
SpecPollFair ==
    /\ SpecPoll
    /\ WF_vars(StartWait)
    /\ WF_vars(PollCheck)
    /\ WF_vars(PollSleep)
    /\ WF_vars(FixedWaitDone)
    /\ WF_vars(SendContinue)

RiskInit ==
    /\ tool_calls = <<>>
    /\ trusted = {}
    /\ completions = <<>>
    /\ doneOrder = <<>>
    /\ chat = <<>>
    /\ responded = {}
    /\ cpc = "idle"
    /\ aborted = FALSE
    /\ abortedReqs = {}
    /\ turnSession = <<>>
    /\ session = 0
    /\ hist = <<>>
    /\ sysInstr = FALSE
    /\ omsgs = <<>>
    /\ cmsgs = <<>>
    /\ convDone = {}
    /\ wire = <<>>
    /\ spc = "done"
    /\ cur = "none"
    /\ closed = FALSE
    /\ signalAborted = FALSE
    /\ pseen = FALSE
    /\ cseen = FALSE
    /\ yielded = <<>>
    /\ shown = <<>>
    /\ gmsgs = <<>>
    /\ sprov = "none"
    /\ smode = "none"
    /\ sphase = "idle"
    /\ attempts = 0
    /\ recv = <<>>
    /\ out = <<>>
    /\ cfc = NoCall
    /\ nstreams = 0
    /\ sended = "none"
    /\ serr = NoErr
    /\ current_model = "none"
    /\ ppc = "idle"
    /\ waited = 0
    /\ polls = 0
    /\ active = 0
    /\ sql = <<>>
    /\ assessment = NoAssessment
    /\ records = <<>>
    /\ tcalls = <<>>
    /\ raw = <<>>
    /\ prepared = <<>>
    /\ clog = <<>>
    /\ cviews = <<>>
    /\ csnaps = <<>>
    /\ cfresh = FALSE
    /\ xq = NoQuery
    /\ xoffset = 0
    /\ xwritten = <<>>
    /\ xpc = "idle"
    /\ xpasses = 0
    /\ aexec = NoExec
    /\ apc = "idle"
    /\ acalls = <<>>
    /\ aresult = "none"
    /\ aopen = 0
    /\ nexecs = 0

SpecRisk == RiskInit /\ [][RiskNext]_vars

TokInit ==
    /\ tool_calls = <<>>
    /\ trusted = {}
    /\ completions = <<>>
    /\ doneOrder = <<>>
    /\ chat = <<>>
    /\ responded = {}
    /\ cpc = "idle"
    /\ aborted = FALSE
    /\ abortedReqs = {}
    /\ turnSession = <<>>
    /\ session = 0
    /\ hist = <<>>
    /\ sysInstr = FALSE
    /\ omsgs = <<>>
    /\ cmsgs = <<>>
    /\ convDone = {}
    /\ wire = <<>>
    /\ spc = "done"
    /\ cur = "none"
    /\ closed = FALSE
    /\ signalAborted = FALSE
    /\ pseen = FALSE
    /\ cseen = FALSE
    /\ yielded = <<>>
    /\ shown = <<>>
    /\ gmsgs = <<>>
    /\ sprov = "none"
    /\ smode = "none"
    /\ sphase = "idle"
    /\ attempts = 0
    /\ recv = <<>>
    /\ out = <<>>
    /\ cfc = NoCall
    /\ nstreams = 0
    /\ sended = "none"
    /\ serr = NoErr
    /\ current_model = "none"
    /\ ppc = "idle"
    /\ waited = 0
    /\ polls = 0
    /\ active = 0
    /\ sql = <<>>
    /\ assessment = NoAssessment
    /\ records = <<>>
    /\ tcalls = <<>>
    /\ raw = <<>>
    /\ prepared = <<>>
    /\ clog = <<>>
    /\ cviews = <<>>
    /\ csnaps = <<>>
    /\ cfresh = FALSE
    /\ xq = NoQuery
    /\ xoffset = 0
    /\ xwritten = <<>>
    /\ xpc = "idle"
    /\ xpasses = 0
    /\ aexec = NoExec
    /\ apc = "idle"
    /\ acalls = <<>>
    /\ aresult = "none"
    /\ aopen = 0
    /\ nexecs = 0

SpecTokens == TokInit /\ [][TokNext]_vars

ToolInit ==
    /\ tool_calls = <<>>
    /\ trusted = {}
    /\ completions = <<>>
    /\ doneOrder = <<>>
    /\ chat = <<>>
    /\ responded = {}
    /\ cpc = "idle"
    /\ aborted = FALSE
    /\ abortedReqs = {}
    /\ turnSession = <<>>
    /\ session = 0
    /\ hist = <<>>
    /\ sysInstr = FALSE
    /\ omsgs = <<>>
    /\ cmsgs = <<>>
    /\ convDone = {}
    /\ wire = <<>>
    /\ spc = "done"
    /\ cur = "none"
    /\ closed = FALSE
    /\ signalAborted = FALSE
    /\ pseen = FALSE
    /\ cseen = FALSE
    /\ yielded = <<>>
    /\ shown = <<>>
    /\ gmsgs = <<>>
    /\ sprov = "none"
    /\ smode = "none"
    /\ sphase = "idle"
    /\ attempts = 0
    /\ recv = <<>>
    /\ out = <<>>
    /\ cfc = NoCall
    /\ nstreams = 0
    /\ sended = "none"
    /\ serr = NoErr
    /\ current_model = "none"
    /\ ppc = "idle"
    /\ waited = 0
    /\ polls = 0
    /\ active = 0
    /\ sql = <<>>
    /\ assessment = NoAssessment
    /\ records = <<>>
    /\ tcalls = <<>>
    /\ raw = <<>>
    /\ prepared = <<>>
    /\ clog = <<>>
    /\ cviews = <<>>
    /\ csnaps = <<>>
    /\ cfresh = FALSE
    /\ xq = NoQuery
    /\ xoffset = 0
    /\ xwritten = <<>>
    /\ xpc = "idle"
    /\ xpasses = 0
    /\ aexec = NoExec
    /\ apc = "idle"
    /\ acalls = <<>>
    /\ aresult = "none"
    /\ aopen = 0
    /\ nexecs = 0

SpecTool == ToolInit /\ [][ToolNext]_vars

PrepInit ==
    /\ tool_calls = <<>>
    /\ trusted = {}
    /\ completions = <<>>
    /\ doneOrder = <<>>
    /\ chat = <<>>
    /\ responded = {}
    /\ cpc = "idle"
    /\ aborted = FALSE
    /\ abortedReqs = {}
    /\ turnSession = <<>>
    /\ session = 0
    /\ hist = <<>>
    /\ sysInstr = FALSE
    /\ omsgs = <<>>
    /\ cmsgs = <<>>
    /\ convDone = {}
    /\ wire = <<>>
    /\ spc = "done"
    /\ cur = "none"
    /\ closed = FALSE
    /\ signalAborted = FALSE
    /\ pseen = FALSE
    /\ cseen = FALSE
    /\ yielded = <<>>
    /\ shown = <<>>
    /\ gmsgs = <<>>
    /\ sprov = "none"
    /\ smode = "none"
    /\ sphase = "idle"
    /\ attempts = 0
    /\ recv = <<>>
    /\ out = <<>>
    /\ cfc = NoCall
    /\ nstreams = 0
    /\ sended = "none"
    /\ serr = NoErr
    /\ current_model = "none"
    /\ ppc = "idle"
    /\ waited = 0
    /\ polls = 0
    /\ active = 0
    /\ sql = <<>>
    /\ assessment = NoAssessment
    /\ records = <<>>
    /\ tcalls = <<>>
    /\ raw = <<>>
    /\ prepared = <<>>
    /\ clog = <<>>
    /\ cviews = <<>>
    /\ csnaps = <<>>
    /\ cfresh = FALSE
    /\ xq = NoQuery
    /\ xoffset = 0
    /\ xwritten = <<>>
    /\ xpc = "idle"
    /\ xpasses = 0
    /\ aexec = NoExec
    /\ apc = "idle"
    /\ acalls = <<>>
    /\ aresult = "none"
    /\ aopen = 0
    /\ nexecs = 0

SpecPrep == PrepInit /\ [][PrepNext]_vars

ChatInit ==
    /\ tool_calls = <<>>
    /\ trusted = {}
    /\ completions = <<>>
    /\ doneOrder = <<>>
    /\ chat = <<>>
    /\ responded = {}
    /\ cpc = "idle"
    /\ aborted = FALSE
    /\ abortedReqs = {}
    /\ turnSession = <<>>
    /\ session = 0
    /\ hist = <<>>
    /\ sysInstr = FALSE
    /\ omsgs = <<>>
    /\ cmsgs = <<>>
    /\ convDone = {}
    /\ wire = <<>>
    /\ spc = "done"
    /\ cur = "none"
    /\ closed = FALSE
    /\ signalAborted = FALSE
    /\ pseen = FALSE
    /\ cseen = FALSE
    /\ yielded = <<>>
    /\ shown = <<>>
    /\ gmsgs = <<>>
    /\ sprov = "none"
    /\ smode = "none"
    /\ sphase = "idle"
    /\ attempts = 0
    /\ recv = <<>>
    /\ out = <<>>
    /\ cfc = NoCall
    /\ nstreams = 0
    /\ sended = "none"
    /\ serr = NoErr
    /\ current_model = "none"
    /\ ppc = "idle"
    /\ waited = 0
    /\ polls = 0
    /\ active = 0
    /\ sql = <<>>
    /\ assessment = NoAssessment
    /\ records = <<>>
    /\ tcalls = <<>>
    /\ raw = <<>>
    /\ prepared = <<>>
    /\ clog = <<>>
    /\ cviews = <<>>
    /\ csnaps = <<>>
    /\ cfresh = FALSE
    /\ xq = NoQuery
    /\ xoffset = 0
    /\ xwritten = <<>>
    /\ xpc = "idle"
    /\ xpasses = 0
    /\ aexec = NoExec
    /\ apc = "idle"
    /\ acalls = <<>>
    /\ aresult = "none"
    /\ aopen = 0
    /\ nexecs = 0

SpecChat == ChatInit /\ [][ChatNext]_vars

ExportInit ==
    /\ tool_calls = <<>>
    /\ trusted = {}
    /\ completions = <<>>
    /\ doneOrder = <<>>
    /\ chat = <<>>
    /\ responded = {}
    /\ cpc = "idle"
    /\ aborted = FALSE
    /\ abortedReqs = {}
    /\ turnSession = <<>>
    /\ session = 0
    /\ hist = <<>>
    /\ sysInstr = FALSE
    /\ omsgs = <<>>
    /\ cmsgs = <<>>
    /\ convDone = {}
    /\ wire = <<>>
    /\ spc = "done"
    /\ cur = "none"
    /\ closed = FALSE
    /\ signalAborted = FALSE
    /\ pseen = FALSE
    /\ cseen = FALSE
    /\ yielded = <<>>
    /\ shown = <<>>
    /\ gmsgs = <<>>
    /\ sprov = "none"
    /\ smode = "none"
    /\ sphase = "idle"
    /\ attempts = 0
    /\ recv = <<>>
    /\ out = <<>>
    /\ cfc = NoCall
    /\ nstreams = 0
    /\ sended = "none"
    /\ serr = NoErr
    /\ current_model = "none"
    /\ ppc = "idle"
    /\ waited = 0
    /\ polls = 0
    /\ active = 0
    /\ sql = <<>>
    /\ assessment = NoAssessment
    /\ records = <<>>
    /\ tcalls = <<>>
    /\ raw = <<>>
    /\ prepared = <<>>
    /\ clog = <<>>
    /\ cviews = <<>>
    /\ csnaps = <<>>
    /\ cfresh = FALSE
    /\ xq = NoQuery
    /\ xoffset = 0
    /\ xwritten = <<>>
    /\ xpc = "idle"
    /\ xpasses = 0
    /\ aexec = NoExec
    /\ apc = "idle"
    /\ acalls = <<>>
    /\ aresult = "none"
    /\ aopen = 0
    /\ nexecs = 0

SpecExport == ExportInit /\ [][ExportNext]_vars

\* the loop does not wait: a pass that can be made is made
SpecExportFair == SpecExport /\ WF_vars(ExportBatch)

AdapterInit ==
    /\ tool_calls = <<>>
    /\ trusted = {}
    /\ completions = <<>>
    /\ doneOrder = <<>>
    /\ chat = <<>>
    /\ responded = {}
    /\ cpc = "idle"
    /\ aborted = FALSE
    /\ abortedReqs = {}
    /\ turnSession = <<>>
    /\ session = 0
    /\ hist = <<>>
    /\ sysInstr = FALSE
    /\ omsgs = <<>>
    /\ cmsgs = <<>>
    /\ convDone = {}
    /\ wire = <<>>
    /\ spc = "done"
    /\ cur = "none"
    /\ closed = FALSE
    /\ signalAborted = FALSE
    /\ pseen = FALSE
    /\ cseen = FALSE
    /\ yielded = <<>>
    /\ shown = <<>>
    /\ gmsgs = <<>>
    /\ sprov = "none"
    /\ smode = "none"
    /\ sphase = "idle"
    /\ attempts = 0
    /\ recv = <<>>
    /\ out = <<>>
    /\ cfc = NoCall
    /\ nstreams = 0
    /\ sended = "none"
    /\ serr = NoErr
    /\ current_model = "none"
    /\ ppc = "idle"
    /\ waited = 0
    /\ polls = 0
    /\ active = 0
    /\ sql = <<>>
    /\ assessment = NoAssessment
    /\ records = <<>>
    /\ tcalls = <<>>
    /\ raw = <<>>
    /\ prepared = <<>>
    /\ clog = <<>>
    /\ cviews = <<>>
    /\ csnaps = <<>>
    /\ cfresh = FALSE
    /\ xq = NoQuery
    /\ xoffset = 0
    /\ xwritten = <<>>
    /\ xpc = "idle"
    /\ xpasses = 0
    /\ aexec = NoExec
    /\ apc = "idle"
    /\ acalls = <<>>
    /\ aresult = "none"
    /\ aopen = 0
    /\ nexecs = 0

SpecAdapter == AdapterInit /\ [][AdapterNext]_vars

(***************************************************************************)
(* Claims about the converters (SpecConv).                                 *)
(***************************************************************************)
OToolIdsAt(msgs, i, n) == [j \in 1..n |-> msgs[i + j].tool_call_id]

\* C4: in the OpenAI converter's output every assistant message carrying tool
\* calls c1..cn is immediately followed by exactly n tool messages whose
\* tool_call_ids are c1..cn in call order, with no other message in between.
C4_OpenAIPairsInCallOrder ==
    "openai" \in convDone =>
        \A i \in 1..Len(omsgs) :
            HasToolCalls(omsgs[i]) =>
                LET n == Len(omsgs[i].tool_calls) IN
                /\ i + n <= Len(omsgs)
                /\ \A j \in 1..n : omsgs[i + j].role = "tool"
                /\ OToolIdsAt(omsgs, i, n) = omsgs[i].tool_calls
                /\ (i + n + 1 <= Len(omsgs) => omsgs[i + n + 1].role # "tool")

\* C5: the OpenAI converter synthesizes a placeholder tool message for a tool
\* call if and only if the history holds no function_response with that call's
\* id, so that each tool_call_id of an assistant message is answered by exactly
\* one tool message of the output.
C5_OpenAIPlaceholderIffUnanswered ==
    "openai" \in convDone =>
        \A i \in 1..Len(omsgs) :
            HasToolCalls(omsgs[i]) =>
                \A id \in SeqRange(omsgs[i].tool_calls) :
                    /\ (\E k \in 1..Len(omsgs) :
                            /\ omsgs[k].role = "tool"
                            /\ omsgs[k].placeholder
                            /\ omsgs[k].tool_call_id = id)
                       <=> id \notin HistRespIds(hist)
                    /\ Cardinality({k \in 1..Len(omsgs) :
                            omsgs[k].role = "tool" /\ omsgs[k].tool_call_id = id}) = 1

\* C6: in the Anthropic converter's output every assistant message carrying
\* tool_use blocks is immediately followed by user content carrying a
\* tool_result for each of those ids (read here as: the next n messages are user
\* messages whose tool_results are exactly those ids), so that no bridge prompt
\* stands between a tool_use and its tool_result.
C6_ClaudeToolUseAnswered ==
    "claude" \in convDone =>
        \A i \in 1..Len(cmsgs) :
            cmsgs[i].tool_use # <<>> =>
                LET n == Len(cmsgs[i].tool_use) IN
                /\ i + n <= Len(cmsgs)
                /\ \A j \in 1..n : /\ cmsgs[i + j].role = "user"
                                   /\ cmsgs[i + j].tool_result # 0
                /\ {cmsgs[i + j].tool_result : j \in 1..n} = SeqRange(cmsgs[i].tool_use)

(***************************************************************************)
(* Claims about abort (SpecAbort).                                         *)
(***************************************************************************)
LateChunks == {i \in 1..Len(yielded) :
                  yielded[i].late /\ yielded[i].kind \in {"text", "function_calls"}}

LateEvents == {i \in 1..Len(shown) :
                  shown[i].late /\ shown[i].kind \notin {"UserCancelled", "Error"}}

\* C7 as claimed: once abort() has been called the provider yields no further
\* text or function-call chunk and the CLI processes no further event of the
\* stream other than UserCancelled and Error.
C7_NothingAfterAbort == LateChunks = {} /\ LateEvents = {}

\* C7 as amended: once abort() has been called the provider yields at most one
\* further text or function-call chunk, and only one whose test of the signal
\* had read "not aborted" before the abort; the CLI processes at most one
\* further event other than UserCancelled and Error, and only one whose test had
\* read "not aborted".
C7_AtMostOneAfterAbort ==
    /\ Cardinality(LateChunks) <= 1
    /\ Cardinality(LateEvents) <= 1
    /\ \A i \in 1..Len(yielded) :
           yielded[i].kind \in {"text", "function_calls"} => ~ yielded[i].seen
    /\ \A i \in 1..Len(shown) :
           shown[i].kind \notin {"UserCancelled", "Error"} => ~ shown[i].seen

\* a chunk was yielded after the abort, and the stream then came to its end
C7_Witness == spc = "done" /\ signalAborted /\ LateChunks # {} /\ wire = <<>>

(***************************************************************************)
(* Claims about the scheduler, the Chat and the Client loop (SpecSched).   *)
(***************************************************************************)
Calls == 1..Len(tool_calls)

Count(seq, x) == Cardinality({i \in 1..Len(seq) : seq[i] = x})

\* the ids of the function_call / function_response parts in Chat, in Chat order
ChatCallIds == FlattenSeq([i \in 1..Len(chat) |-> CallIdsOf(chat[i].parts)])
ChatRespIds == FlattenSeq([i \in 1..Len(chat) |-> RespIdsOf(chat[i].parts)])

OfRequest(ids, r) == SelectSeq(ids, LAMBDA c : tool_calls[c].request_id = r)

\* the two calls of some batch finished in the reverse of their call order
FinishedOutOfOrder(r) ==
    \E i, j \in 1..Len(doneOrder) :
        /\ i < j
        /\ doneOrder[i] > doneOrder[j]
        /\ tool_calls[doneOrder[i]].request_id = r
        /\ tool_calls[doneOrder[j]].request_id = r

\* C1: a call that overwrites an existing file (should_confirm returns details
\* for it), that is past validation and that no earlier proceed_always covered
\* is not executed, and is in no status past the gate, before handle_confirmation
\* was called for it with proceed_once, proceed_always or modify; until then it
\* is parked in awaiting_approval (or was cancelled there).
C1_ConfirmationGate ==
    \A c \in Calls :
        ( /\ tool_calls[c].kind = "overwrite"
          /\ tool_calls[c].confirm \notin {"none", "trusted"}
          /\ tool_calls[c].outcome \notin Proceed )
            => /\ tool_calls[c].confirm = "details"
               /\ ~ tool_calls[c].executed
               /\ tool_calls[c].status \in {"awaiting_approval", "cancelled"}

C1_Witness ==
    \E c, d \in Calls :
        /\ tool_calls[c].confirm = "details"
        /\ tool_calls[c].outcome \in Proceed
        /\ tool_calls[c].status = "success"
        /\ tool_calls[d].confirm = "details"
        /\ tool_calls[d].outcome = "none"
        /\ tool_calls[d].status = "awaiting_approval"

\* C2: a call rejected with cancel is cancelled and was never executed; its
\* response is in Chat once the responses of its batch are appended; its batch is
\* reported complete once all its calls are terminal; and no later Turn runs in
\* the session of the rejected batch, the Client being back at the user once the
\* responses are appended.
C2_Rejection ==
    \A c \in Calls :
        tool_calls[c].outcome = "cancel" =>
            LET r == tool_calls[c].request_id
            IN  /\ tool_calls[c].status = "cancelled"
                /\ ~ tool_calls[c].executed
                /\ r \in responded => c \in SeqRange(ChatRespIds)
                /\ AllTerminal(tool_calls, r) => r \in SeqRange(completions)
                /\ \A t \in 1..Len(turnSession) :
                       t > r => turnSession[t] # turnSession[r]
                /\ (r \in responded /\ session = turnSession[r]) => cpc = "idle"

\* the legal steps of a ToolCall's status
LegalStep ==
    {<<"validating", "scheduled">>, <<"validating", "awaiting_approval">>,
     <<"validating", "error">>, <<"scheduled", "executing">>,
     <<"awaiting_approval", "executing">>, <<"awaiting_approval", "cancelled">>,
     <<"executing", "success">>, <<"executing", "error">>,
     <<"executing", "cancelled">>}

\* C3: every ToolCall starts in validating, every change of its status is a step
\* of the legal path (from validating only to scheduled, awaiting_approval or
\* error; into executing only from scheduled or awaiting_approval; into a terminal
\* status at the end), and a terminal status never changes again.
C3_LegalStatusPath ==
    [][\A c \in 1..Len(tool_calls') :
          IF c > Len(tool_calls)
          THEN tool_calls'[c].status = "validating"
          ELSE \/ tool_calls'[c].status = tool_calls[c].status
               \/ /\ tool_calls[c].status \notin Terminal
                  /\ <<tool_calls[c].status, tool_calls'[c].status>> \in LegalStep]_vars

C3_Witness ==
    \E c, d, e \in Calls :
        /\ tool_calls[c].status = "cancelled" /\ tool_calls[c].executed
        /\ tool_calls[c].confirm = "details"
        /\ tool_calls[d].status = "error" /\ tool_calls[d].kind = "invalid"
        /\ tool_calls[e].status = "success" /\ tool_calls[e].confirm = "false"

\* C8: on_all_tool_calls_complete has fired exactly once for a batch whose calls
\* are all terminal, and not at all for a batch with a call that is not.
C8_CompleteExactlyOnce ==
    \A r \in 1..Len(turnSession) :
        Count(completions, r) =
            IF CallsOf(r) # {} /\ AllTerminal(tool_calls, r) THEN 1 ELSE 0

C8_Witness ==
    \E r \in 1..Len(turnSession) :
        /\ Cardinality(CallsOf(r)) = 2
        /\ Count(completions, r) = 1
        /\ FinishedOutOfOrder(r)
        /\ \E c \in CallsOf(r) : tool_calls[c].status = "cancelled"

\* C9: for every batch whose responses are in Chat, the function_response parts
\* are in the order of the batch's function_call parts.
C9_ResponsesInCallOrder ==
    \A r \in responded : OfRequest(ChatRespIds, r) = OfRequest(ChatCallIds, r)

C9_Witness ==
    \E r \in responded :
        /\ Cardinality(CallsOf(r)) = 2
        /\ FinishedOutOfOrder(r)
        /\ r \in SeqRange(completions)

\* a function_call part of Chat content i has a function_response with the same
\* id in a later content
Paired(i, id) == \E j \in (i + 1)..Len(chat) : id \in SeqRange(RespIdsOf(chat[j].parts))

\* a model turn that holds only function_calls whose responses were cancelled
\* without output, or that is empty
InvalidModelTurn(i) ==
    /\ chat[i].role = "model"
    /\ \A k \in 1..Len(chat[i].parts) :
          /\ chat[i].parts[k].kind = "function_call"
          /\ tool_calls[chat[i].parts[k].id].status = "cancelled"
          /\ ~ tool_calls[chat[i].parts[k].id].executed
          /\ Paired(i, chat[i].parts[k].id)

\* the positions of Chat that the curated view keeps
Curated == {i \in 1..Len(chat) : ~ InvalidModelTurn(i)}

\* C10 as claimed: in every state of the Chat, every function_call of the
\* curated history has a function_response with the same id in a later content.
C10_EveryCallPaired ==
    \A i \in Curated : \A id \in SeqRange(CallIdsOf(chat[i].parts)) : Paired(i, id)

\* C10 as amended: every function_call of the curated history whose batch has had
\* its responses appended to Chat has a function_response with the same id in a
\* later content; the calls of the batch in progress are the only unpaired ones.
C10_PairedOnceAppended ==
    \A i \in Curated : \A id \in SeqRange(CallIdsOf(chat[i].parts)) :
        \/ Paired(i, id)
        \/ /\ tool_calls[id].request_id \notin responded
           /\ tool_calls[id].request_id = Len(turnSession)

C10_Witness ==
    \E c, d \in Calls :
        /\ tool_calls[c].request_id = 1
        /\ tool_calls[c].status = "cancelled"
        /\ tool_calls[c].request_id \in abortedReqs
        /\ 1 \in responded
        /\ tool_calls[d].request_id = 2
        /\ 2 \notin responded

(***************************************************************************)
(* Claims about the provider streams (SpecStream).                         *)
(***************************************************************************)
\* the function_call entries yielded in the call in hand, in order
OutCalls == FlattenSeq([n \in 1..Len(out) |-> out[n].calls])

EntriesOf(i) == {n \in 1..Len(OutCalls) : OutCalls[n].id = i}

Markers == {n \in 1..Len(recv) : recv[n].k \in {"finish_tool_calls", "block_stop"}}

TextReceived == {n \in 1..Len(recv) : recv[n].k \in {"text", "delta_text", "parts_text"}}

TextYielded == {n \in 1..Len(out) : out[n].text /\ ~ out[n].error}

ErrorChunks == {n \in 1..Len(out) : out[n].error}

\* C11: when an OpenAI stream has been read to its end, every tool call the wire
\* delivered has exactly one function_call entry among the chunks yielded, with
\* the call's own id, name and complete arguments.
C11_OpenAIOneEntryPerCall ==
    (sprov = "openai" /\ smode = "stream" /\ sended = "eof") =>
        \A i \in Started :
            /\ Cardinality(EntriesOf(i)) = 1
            /\ \A n \in EntriesOf(i) :
                  OutCalls[n].name = i /\ OutCalls[n].args = CompleteArgs(i)

\* C12: every function_call entry an OpenAI or Anthropic stream has yielded
\* belongs to a call of this stream all of whose argument fragments were
\* received, carries exactly those arguments, and there are no more entries
\* than block-complete markers received.
C12_CallsEmittedComplete ==
    (sprov \in {"openai", "claude"} /\ smode = "stream") =>
        /\ Len(OutCalls) <= Cardinality(Markers)
        /\ \A n \in 1..Len(OutCalls) :
              /\ OutCalls[n].id \in Started
              /\ FragsOf(OutCalls[n].id) = FragsPerCall
              /\ OutCalls[n].args = CompleteArgs(OutCalls[n].id)

\* C13: every chunk yielded carries at most one of a text, function calls and an
\* error.
C13_OnePayloadPerChunk ==
    \A n \in 1..Len(out) :
        /\ ~ (out[n].text /\ out[n].calls # <<>>)
        /\ ~ (out[n].text /\ out[n].error)
        /\ ~ (out[n].error /\ out[n].calls # <<>>)

\* C14: a send_message_stream that met a non-retriable error, at the start or
\* while reading, has ended by yielding an error chunk: there is exactly one, it
\* is the last chunk, and every text received before it was yielded and is still
\* there.
C14_ErrorChunkEndsStream ==
    (smode = "stream" /\ serr.kind = "permanent") =>
        /\ sphase = "closed"
        /\ sended = "error"
        /\ out # <<>>
        /\ out[Len(out)].error
        /\ Cardinality(ErrorChunks) = 1
        /\ Cardinality(TextYielded) = Cardinality(TextReceived)

C14_Witness ==
    /\ smode = "stream"
    /\ serr = [kind |-> "permanent", at |-> "read"]
    /\ Cardinality(TextYielded) >= 1
    /\ Len(out) >= 2

\* C15: the caller of send_message_stream sees an error chunk only after a
\* non-retriable error or when the attempts are used up; a transient error with
\* attempts left is retried and not shown.
C15_TransientTransparent ==
    (smode = "stream" /\ ErrorChunks # {}) =>
        (serr.kind = "permanent" \/ attempts >= StreamMaxAttempts)

\* C16: a generate_json that gave up on errors that were all retriable has made 5
\* attempts, and a stream start that did has made between 3 and 5.
C16_AttemptsBeforeGivingUp ==
    /\ (smode = "json" /\ sended = "json_default" /\ serr.kind = "transient")
          => attempts = GeminiJsonMaxAttempts
    /\ (smode = "stream" /\ serr = [kind |-> "transient", at |-> "start"])
          => attempts \in StreamMaxAttempts..GeminiJsonMaxAttempts

(***************************************************************************)
(* Claims on the converters, continued (SpecConv).                         *)
(***************************************************************************)
Occ(s, x) == Cardinality({i \in 1..Len(s) : s[i] = x})

HistTexts == FlattenSeq([i \in 1..Len(hist) |-> TextsOf(hist[i].parts)])
HistCalls == FlattenSeq([i \in 1..Len(hist) |-> CallIdsOf(hist[i].parts)])

\* the texts, calls and responses an output carries, placeholders and the
\* system message left out
OTexts ==
    FlattenSeq([i \in 1..Len(omsgs) |->
        IF omsgs[i].role \in {"tool", "system"} THEN <<>> ELSE omsgs[i].content])
OCalls == FlattenSeq([i \in 1..Len(omsgs) |-> omsgs[i].tool_calls])
ORespIds ==
    {omsgs[i].tool_call_id : i \in {k \in 1..Len(omsgs) :
        omsgs[k].role = "tool" /\ ~ omsgs[k].placeholder}}

CTexts == FlattenSeq([i \in 1..Len(cmsgs) |-> cmsgs[i].text])
CCalls == FlattenSeq([i \in 1..Len(cmsgs) |-> cmsgs[i].tool_use])
CRespIds ==
    {cmsgs[i].tool_result : i \in {k \in 1..Len(cmsgs) : cmsgs[k].tool_result # 0}}

GTexts == FlattenSeq([i \in 1..Len(gmsgs) |-> TextsOf(gmsgs[i].parts)])
GCalls == FlattenSeq([i \in 1..Len(gmsgs) |-> CallIdsOf(gmsgs[i].parts)])
GRespIds == UNION {SeqRange(RespIdsOf(gmsgs[i].parts)) : i \in 1..Len(gmsgs)}

TextStrings == {"text", PleaseContinue, ContinueConversation}

\* every text of the history is in the output at least as often
KeepsTexts(outTexts, strings) ==
    \A x \in strings : Occ(HistTexts, x) <= Occ(outTexts, x)

KeepsCallsAndResponses(outCalls, outRespIds) ==
    /\ outCalls = HistCalls
    /\ HistRespIds(hist) \subseteq outRespIds

ConfirmedBatches ==
    {r \in 1..Len(turnSession) : \E c \in CallsOf(r) : tool_calls[c].outcome # "none"}

\* the batch of the confirmation handled last
JustConfirmedBatch ==
    CHOOSE r \in ConfirmedBatches : \A q \in ConfirmedBatches : q <= r

\* the step of _continue_after_confirmation that sends "Please continue."
SendsBridge == cpc = "continue" /\ cpc' = "turn"

\* C18: when the bridge prompt is sent after a confirmation, every call of
\* the just-confirmed batch is in a terminal status; none is validating,
\* scheduled, awaiting_approval or executing.
C18_BridgeOnlyWhenTerminal ==
    [][SendsBridge =>
          \A c \in CallsOf(JustConfirmedBatch) : tool_calls[c].status \in Terminal]_vars

(***************************************************************************)
(* Claims on the wait before the bridge prompt (SpecPollFair).             *)
(***************************************************************************)
\* the polls a wait can make: one per poll_interval up to max_wait, and the
\* one more the floating-point sum lets through
PollLimit == MaxWaitTenths \div PollIntervalTenths + 1

UncappedSum ==
    assessment.op_risk + assessment.scope_risk + assessment.integrity_risk
    + assessment.perf_risk + assessment.security_risk

\* C22: the returned score is within 0..100 and the returned level is the
\* step function of the returned score at 30, 60 and 80, also when the sum
\* of the axes exceeds 100.
C22_ScoreAndLevel ==
    assessment.evaluated =>
        /\ assessment.score \in 0..100
        /\ assessment.level =
              (IF assessment.score >= 80 THEN "critical"
               ELSE IF assessment.score >= 60 THEN "high"
               ELSE IF assessment.score >= 30 THEN "medium" ELSE "low")

\* an assessment whose axes sum to more than 100
C22_Witness == assessment.evaluated /\ UncappedSum > 100

\* C23: requires_confirmation is true exactly when the level is high or
\* critical, or the operation is DROP, TRUNCATE or ALTER, or it is UPDATE or
\* DELETE and the text has no WHERE.
C23_RequiresConfirmationIff ==
    assessment.evaluated =>
        (assessment.requires_confirmation <=>
            \/ assessment.level \in {"high", "critical"}
            \/ assessment.operation_type \in {"DROP", "TRUNCATE", "ALTER"}
            \/ /\ assessment.operation_type \in {"UPDATE", "DELETE"}
               /\ \A i \in 1..Len(sql) : sql[i] # "WHERE")

\* confirmation asked for by the operation alone: an ALTER of medium level
C23_Witness ==
    /\ assessment.evaluated
    /\ assessment.requires_confirmation
    /\ assessment.operation_type = "ALTER"
    /\ assessment.level = "medium"

\* a DELETE with no WHERE and no other risk factor: one table, an empty
\* context, no injection pattern, no other verb in the text
PlainDeleteNoWhere ==
    /\ assessment.evaluated
    /\ sql = <<"DELETE", "FROM", "t">>
    /\ assessment.context = [fk |-> FALSE, big |-> {}]

\* C24: for a DELETE with no WHERE and no other risk factor the level is
\* high, from the operation weight 40 and the no-WHERE bonus 25.
C24_DeleteNoWhereIsHigh ==
    PlainDeleteNoWhere =>
        /\ assessment.level = "high"
        /\ assessment.score = 40 + 25

\* C25: the operation axis is the verb's base weight, plus 30 once if any
\* dangerous pattern matches, plus 25 for an UPDATE or DELETE with no WHERE.
C25_OperationAxis ==
    assessment.evaluated =>
        assessment.op_risk =
            BaseScore(assessment.operation_type)
            + (IF \E k \in 1..7 : DangerousPattern(k, sql) THEN 30 ELSE 0)
            + (IF assessment.operation_type \in {"UPDATE", "DELETE"} /\ ~ Has(sql, "WHERE")
               THEN 25 ELSE 0)

\* C26: the performance axis is 15 for a SELECT with no WHERE plus 5 for
\* each JOIN beyond the second.
C26_PerformanceAxis ==
    assessment.evaluated =>
        assessment.perf_risk =
            (IF Has(sql, "SELECT") /\ ~ Has(sql, "WHERE") THEN 15 ELSE 0)
            + (IF JoinCount(sql) > 2 THEN 5 * (JoinCount(sql) - 2) ELSE 0)

(***************************************************************************)
(* Claims on the token statistics (SpecTokens).                            *)
(***************************************************************************)
RECURSIVE SumOver(_, _)
SumOver(f, S) ==
    IF S = {} THEN 0
    ELSE LET x == CHOOSE y \in S : TRUE IN f[x] + SumOver(f, S \ {x})

HasNone(r) == r.prompt_tokens = <<>> \/ r.completion_tokens = <<>> \/ r.total_tokens = <<>>

\* C27: after any sequence of add_usage calls, also with None or missing
\* counts, the summary's total_tokens is its total_prompt_tokens plus its
\* total_completion_tokens.
C27_TotalIsPromptPlusCompletion ==
    LET sm == GetSummary(records)
    IN  /\ sm.total_tokens = sm.total_prompt_tokens + sm.total_completion_tokens
        /\ sm.total_calls = Len(records)

\* several usages recorded, one of them with a None count, and tokens counted
C27_Witness ==
    /\ Len(records) >= 2
    /\ \E i \in 1..Len(records) : HasNone(records[i])
    /\ GetSummary(records).total_tokens > 0

\* C28: the per-model total_tokens of the summary add up to its grand
\* total_tokens.
C28_PerModelTotalsAddUp ==
    LET sm == GetSummary(records)
    IN  SumOver([m \in DOMAIN sm.by_model |-> sm.by_model[m].total_tokens],
                DOMAIN sm.by_model) = sm.total_tokens

\* the params the tools' own rules reject: a connect or test (or no action)
\* without connection_string, a switch without database_name, an export
\* without sql, without a path, to a path outside the allowed directories, or
\* with no format and an extension that names none
RejectedParams(call) ==
    \/ /\ call.tool = "database_connect"
       /\ \/ /\ call.params.action \in {"missing", "connect", "test"}
             /\ call.params.connection_string = ""
          \/ /\ call.params.action = "switch"
             /\ call.params.database_name = ""
    \/ /\ call.tool = "database_export"
       /\ \/ call.params.sql = ""
          \/ call.params.output_path \in {"", "/etc/out.csv"}
          \/ call.params.format = "" /\ call.params.output_path = "out.txt"

ValidationMessages ==
    {"db_connect_need_connection_string", "db_connect_need_database_name",
     "export_sql_empty", "export_path_empty", "export_path_not_allowed",
     "export_format_unsupported"}

ToolOpenStatuses == {"validating", "scheduled", "awaiting_approval", "executing"}

\* C29: a call whose params validate rejects is validating or error and
\* nothing else; neither should_confirm nor execute is ever invoked for it;
\* once it has left validating its function_response is the validation
\* message; and while it sits in error every other call of the batch that is
\* not finished can still take its next step.
C29_ValidationErrorIsDirect ==
    \A c \in 1..Len(tcalls) :
        RejectedParams(tcalls[c]) =>
            /\ tcalls[c].status \in {"validating", "error"}
            /\ tcalls[c].invoked \subseteq {"validate"}
            /\ ~ tcalls[c].awaited
            /\ tcalls[c].status = "error" =>
                  /\ tcalls[c].invoked = {"validate"}
                  /\ tcalls[c].response \in ValidationMessages
                  /\ \A d \in 1..Len(tcalls) :
                        tcalls[d].status \in ToolOpenStatuses =>
                            ENABLED (\/ ToolValidateStep(d) \/ ToolConfirm(d)
                                     \/ ToolStart(d) \/ ToolFinish(d))

\* a connect call and an export call both rejected by validate, or one
\* rejected call beside a call of the batch that went on to succeed
C29_Witness ==
    \E c, d \in 1..Len(tcalls) :
        /\ c # d
        /\ RejectedParams(tcalls[c])
        /\ tcalls[c].status = "error"
        /\ tcalls[c].response \in ValidationMessages
        /\ tcalls[d].status = "success"
        /\ "execute" \in tcalls[d].invoked

NoConfirmTools == {"schema_discovery", "database_connect"}

\* the steps of the path validating -> scheduled -> executing -> success | error
ToolStraightSteps ==
    {<<"validating", "scheduled">>, <<"scheduled", "executing">>,
     <<"executing", "success">>, <<"executing", "error">>}

FilledPart(p) == p.text # "" \/ p.id # 0

\* the name of a part's key with camelCase written as snake_case
SnakeName(p) ==
    IF p.kind \in {"function_call", "functionCall"} THEN "function_call"
    ELSE IF p.kind \in {"function_response", "functionResponse"} THEN "function_response"
    ELSE "text"

\* the positions of the parts of c that are not empty, in order
RECURSIVE FilledFrom(_, _)
FilledFrom(ps, k) ==
    IF k > Len(ps) THEN <<>>
    ELSE (IF FilledPart(ps[k]) THEN <<k>> ELSE <<>>) \o FilledFrom(ps, k + 1)

\* the positions of the contents that have a part that is not empty, in order
RECURSIVE KeptFrom(_, _)
KeptFrom(cs, i) ==
    IF i > Len(cs) THEN <<>>
    ELSE (IF FilledFrom(cs[i].parts, 1) # <<>> THEN <<i>> ELSE <<>>) \o KeptFrom(cs, i + 1)

IsRestOf(h, g, gone) ==
    LET keep == {i \in 1..Len(g) : i \notin gone}
        Rank(i) == Cardinality({j \in keep : j <= i})
    IN  /\ Len(h) = Cardinality(keep)
        /\ \A i \in keep : h[Rank(i)] = g[i]

\* the model turns of g that are empty or hold only calls answered by the
\* response of a cancelled call
InvalidTurnsOf(g) ==
    {i \in 1..Len(g) :
        /\ g[i].role = "model"
        /\ \A k \in 1..Len(g[i].parts) :
              /\ g[i].parts[k].kind = "function_call"
              /\ \E j \in 1..Len(g) : \E n \in 1..Len(g[j].parts) :
                    /\ g[j].parts[n].kind = "function_response"
                    /\ g[j].parts[n].id = g[i].parts[k].id
                    /\ g[j].parts[n].text = "cancelled"}

\* C32: the curated view is the comprehensive history with its invalid model
\* turns taken out, the other contents unchanged and in their order; and
\* curating the curated view returns it unchanged.
C32_CurationIdempotent ==
    /\ cviews # <<>> => IsRestOf(cviews[1], clog, InvalidTurnsOf(clog))
    /\ Len(cviews) = 2 => cviews[2] = cviews[1]

\* a history with an invalid model turn between contents that stay, curated
\* twice
C32_Witness ==
    /\ Len(cviews) = 2
    /\ cviews[1] # <<>>
    /\ \E i \in InvalidTurnsOf(clog) : 1 < i /\ i < Len(clog) /\ clog[i].parts # <<>>

\* C33: of two compressions in succession with no add in between, the
\* second leaves the curated history as the first left it.
C33_CompressionIdempotent ==
    Len(csnaps) = 2 => csnaps[2] = csnaps[1]

\* the first compression wrote the summary, the curated history is still
\* above the threshold, and compression was applied again
C33_Witness ==
    /\ Len(csnaps) = 2
    /\ cfresh
    /\ IsSummary(clog[1])
    /\ EstimateTokens(Curate(clog)) > CompressionThreshold
    /\ Len(clog) > KeepRecent

\* C34: whenever a send_message_stream starts on a ClaudeService, its
\* _current_tool_use is empty, and every function call a stream of it has
\* yielded is a call whose tool_use block started in that stream.
C34_ToolUseEmptyAtStart ==
    (sprov = "claude" /\ smode = "stream") =>
        /\ sphase = "start" => ~ cfc.set
        /\ \A n \in 1..Len(OutCalls) : OutCalls[n].id \in Started

\* C35: an export that has begun comes to its end, and then every row of the
\* query's result has been written exactly once.
C35_ExportEndsEachRowOnce ==
    (xpc = "loop") ~> (xpc = "done" /\ \A r \in 1..xq.nrows : xwritten[r] = 1)

\* C36: the messages _gemini_to_claude_messages returns alternate between
\* user and assistant, and when there are any the first and the last are
\* user messages.
C36_ClaudeAlternates ==
    "claude" \in convDone =>
        /\ \A i \in 1..Len(cmsgs) : cmsgs[i].role \in {"user", "assistant"}
        /\ \A i \in 1..(Len(cmsgs) - 1) : cmsgs[i].role # cmsgs[i + 1].role
        /\ cmsgs # <<>> =>
              /\ cmsgs[1].role = "user"
              /\ cmsgs[Len(cmsgs)].role = "user"

\* the generate_json in hand has returned or raised
JsonEnded == smode = "json" /\ sphase = "closed"

\* C37 as stated: generate_json never raises, and whenever the provider
\* call failed or the reply was not valid JSON (text without JSON, or a JSON
\* object with text around it) it returned the default next_speaker = user.
C37_JsonFailureReturnsUser ==
    JsonEnded =>
        /\ sended # "json_raised"
        /\ (serr # NoErr \/ sended = "json_extracted") => sended = "json_default"

\* C37: generate_json never raises; whenever the provider call failed or no
\* JSON could be parsed from the reply it returned the default next_speaker =
\* user; what it returns otherwise is the reply's JSON, which for Anthropic
\* alone may be an object taken out of a reply with text around it.
C37_JsonNeverRaises ==
    JsonEnded =>
        /\ sended \in {"json_ok", "json_extracted", "json_default"}
        /\ serr # NoErr => sended = "json_default"
        /\ sended = "json_extracted" => sprov = "claude"
        /\ (sended = "json_default") => serr # NoErr

\* a second generate_json on the service ended on a reply that did not parse
C37_Witness ==
    /\ JsonEnded
    /\ nstreams = 2
    /\ serr = [kind |-> "invalid_json", at |-> "parse"]
    /\ sended = "json_default"

\* C38: whenever an execution that connected an adapter of its own has
\* returned, no adapter is left connected: if connect was called and did not
\* raise, disconnect was called after it.
C38_AdapterDisconnectedOnReturn ==
    apc = "returned" =>
        /\ aopen = 0
        /\ (Len(acalls) > 1 => acalls[Len(acalls)] = "disconnect")

====
